---- MODULE Spec2Model ----
(***************************************************************************)
(* Model of the ZFS storage driver of lxd (lxd/storage_zfs.go).            *)
(*                                                                         *)
(* The ZFS pool is a function from full filesystem names (sequences of     *)
(* path components) to dataset records.  Driver methods that run on one    *)
(* caller's context without yielding are operators on a "world" record w   *)
(* (pool, image catalog, uuid source, command log, fault plan); the        *)
(* single-flight sections of ContainerMount, ContainerUmount and           *)
(* ContainerCreateFromImage are modelled statement by statement with one   *)
(* program counter per calling thread.                                     *)
(***************************************************************************)
EXTENDS Integers, Sequences, FiniteSets, TLC

VARIABLES
    dataset,                        \* storageZfs.dataset (<<>> when unset)
    datasets,                       \* the ZFS pool: full name -> dataset
    imageDb,                        \* catalog: images with a pool volume record
    uuidNext,                       \* number of uuids handed out so far
    log,                            \* zfs / hook invocations made so far
    last,                           \* the driver call that returned last
    faultsUsed,                     \* commands made to fail so far
    opsDone,                        \* driver calls that have returned
    files,                          \* directories and symlinks under the var path
    prev,                           \* the driver call that returned before last
    before,                         \* the pool's listings before the last two calls
    mig,                            \* a migration: source driver, connection, sink
    poolState,                      \* s.pool.Config and the pool-level ZFS state
    lxdStorageMapLock,              \* holder of the table mutex, or NoThread
    lxdStorageOngoingOperationMap,  \* operation key -> rendezvous channel
    channels,                       \* channel -> number of close() calls
    pc,                             \* per thread: position in its call
    call,                           \* per thread: the call it makes
    waitChannel,                    \* per thread: channel read from the table
    made,                           \* per thread: channel it put in the table
    ourMount,                       \* per thread: local ourMount / ourUmount
    imgerr,                         \* per thread: local imgerr
    invoked,                        \* per thread: zfs (or ImageCreate) runs started
    ret                             \* per thread: returned (didWork, err)

vars == <<dataset, datasets, imageDb, uuidNext, log, last, faultsUsed, opsDone,
          files, prev, before, mig, poolState,
          lxdStorageMapLock, lxdStorageOngoingOperationMap, channels,
          pc, call, waitChannel, made, ourMount, imgerr, invoked, ret>>

coordVars == <<lxdStorageMapLock, lxdStorageOngoingOperationMap, channels,
               pc, call, waitChannel, made, ourMount, imgerr, invoked, ret>>

----------------------------------------------------------------------------
(* Bounds of the model.                                                    *)

NThreads == 3       \* concurrent callers of the single-flight sections
MaxUuid == 3        \* uuids the driver may draw in one behaviour
MaxFaults == 1      \* commands that may be made to fail in one behaviour
MaxSteps == 7       \* commands of one call, in order, a fault may hit
MaxOps == 5         \* driver calls in one behaviour of the sequential model
MaxReverts == 3     \* nested reverts of one ContainerSnapshotRename that are followed

Threads == 1..NThreads
NoThread == 0
NoChannel == 0

PoolName == "p"
ContainerNames == {"c1", "c2"}
Fingerprints == {"f1"}
SnapNames == {"s1"}
UUIDS == <<"u1", "u2", "u3", "u4", "u5", "u6">>

----------------------------------------------------------------------------
(* Names.  A filesystem name is a sequence of components; a path as the    *)
(* driver passes it around ("containers/c1@snapshot-s1") is a record of    *)
(* the filesystem and the snapshot (<<>> when the path has no "@").  A     *)
(* snapshot name is <<kind, id>>: snapshot-<s>, copy-<uuid>, readonly.     *)

NoSnap == <<>>
None == <<"none">>
Path(fs, snap) == [fs |-> fs, snap |-> snap]
FsPath(fs) == Path(fs, NoSnap)
NoOrigin == FsPath(<<"-">>)

IsPrefix(pre, s) ==
    /\ Len(pre) <= Len(s)
    /\ \A i \in 1..Len(pre) : s[i] = pre[i]

\* strings.TrimPrefix(name, prefix + "/") on component sequences
TrimPrefix(s, pre) ==
    IF IsPrefix(pre, s) /\ Len(s) > Len(pre)
    THEN SubSeq(s, Len(pre) + 1, Len(s))
    ELSE s

\* poolName := s.pool.Name; if s.dataset != "" { poolName = s.dataset }
onDiskPoolName == IF dataset # <<>> THEN dataset ELSE <<PoolName>>

Full(fs) == onDiskPoolName \o fs
FullPath(path) == Path(Full(path.fs), path.snap)

getContainerMountPoint(pool, name) == <<"storage-pools", pool, "containers", name>>
getImageMountPoint(pool, fp) == <<"storage-pools", pool, "images", fp>>
getSnapshotMountPoint(pool, name) == <<"storage-pools", pool, "snapshots", name>>
getContainerMountLockID(pool, name) == <<"mount", pool, name>>
getContainerUmountLockID(pool, name) == <<"umount", pool, name>>
getImageCreateLockID(pool, fp) == <<"image-create", pool, fp>>

----------------------------------------------------------------------------
(* ZFS itself: what the zfs commands do to the pool.                       *)

NewFs(origin, mountpoint, mounted) ==
    [origin |-> origin, mountpoint |-> mountpoint, mounted |-> mounted,
     snaps |-> <<>>]

Exists(ds, full) == full \in DOMAIN ds

SeqToSet(s) == {s[i] : i \in 1..Len(s)}

SnapExists(ds, full, snap) ==
    /\ Exists(ds, full)
    /\ snap \in SeqToSet(ds[full].snaps)

PathExists(ds, fp) ==
    IF fp.snap = NoSnap THEN Exists(ds, fp.fs) ELSE SnapExists(ds, fp.fs, fp.snap)

\* the filesystems cloned from snapshot full@snap
Clones(ds, full, snap) ==
    {d \in DOMAIN ds : ds[d].origin = Path(full, snap)}

\* full and every filesystem below it
Subtree(ds, full) == {d \in DOMAIN ds : IsPrefix(full, d)}

\* the proper ancestors of full that zfs create -p / rename -p adds
MissingParents(ds, full) ==
    {SubSeq(full, 1, n) : n \in (Len(onDiskPoolName) + 1)..(Len(full) - 1)}
        \ DOMAIN ds

WithParents(ds, full) ==
    [d \in DOMAIN ds \cup MissingParents(ds, full) |->
        IF d \in DOMAIN ds THEN ds[d] ELSE NewFs(NoOrigin, None, FALSE)]

Put(ds, full, rec) ==
    [d \in DOMAIN ds \cup {full} |-> IF d = full THEN rec ELSE ds[d]]

Drop(ds, gone) == [d \in DOMAIN ds \ gone |-> ds[d]]

RemoveSnap(s, snap) == SelectSeq(s, LAMBDA x : x # snap)

\* zfs destroy -r refuses a tree one of whose snapshots has a clone outside it
DestroyBlocked(ds, full) ==
    \E d \in Subtree(ds, full) : \E i \in 1..Len(ds[d].snaps) :
        Clones(ds, d, ds[d].snaps[i]) \ Subtree(ds, full) # {}

\* a renamed filesystem keeps its clones: their origin follows the new name
Renamed(ds, src, dst) ==
    LET moved(d) == IF IsPrefix(src, d)
                    THEN dst \o SubSeq(d, Len(src) + 1, Len(d)) ELSE d
        fix(rec) == IF rec.origin # NoOrigin /\ IsPrefix(src, rec.origin.fs)
                    THEN [rec EXCEPT !.origin.fs = moved(@)] ELSE rec
        base == WithParents(Drop(ds, Subtree(ds, src)), dst)
        keep == DOMAIN base
    IN  [d \in keep \cup {moved(x) : x \in Subtree(ds, src)} |->
            IF \E x \in Subtree(ds, src) : moved(x) = d
            THEN fix(ds[CHOOSE x \in Subtree(ds, src) : moved(x) = d])
            ELSE fix(base[d])]

SnapRenamed(ds, full, old, new) ==
    [d \in DOMAIN ds |->
        LET rec == IF d = full
                   THEN [ds[d] EXCEPT !.snaps =
                            [i \in 1..Len(@) |-> IF @[i] = old THEN new ELSE @[i]]]
                   ELSE ds[d]
        IN  IF rec.origin = Path(full, old)
            THEN [rec EXCEPT !.origin = Path(full, new)] ELSE rec]

----------------------------------------------------------------------------
(* The world a driver call runs in, and the fault plan of the call: the    *)
(* commands of a call are numbered as they are executed and those whose    *)
(* number is in w.fails exit non-zero without effect.                      *)

\* every dataset under deleted/ has mountpoint none
DeletedMountpointNone(ds) ==
    \A d \in DOMAIN ds :
        IsPrefix(onDiskPoolName \o <<"deleted">>, d) => ds[d].mountpoint = None

\* didWork carries the first result of ContainerMount / ContainerUmount;
\* graveOk records that the pool satisfied DeletedMountpointNone after every
\* command the call has run so far
World(fails) ==
    [ds |-> datasets, db |-> imageDb, uu |-> uuidNext, log |-> log,
     files |-> files, step |-> 0, fails |-> fails, err |-> FALSE, didWork |-> FALSE,
     graveOk |-> DeletedMountpointNone(datasets), pool |-> poolState]

Hit(w) == (w.step + 1) \in w.fails
Failed(w) == [w EXCEPT !.step = @ + 1, !.err = TRUE]
Done(w, ds, entry) ==
    [w EXCEPT !.step = @ + 1, !.err = FALSE, !.ds = ds, !.log = Append(@, entry),
              !.graveOk = @ /\ DeletedMountpointNone(ds)]
\* a call of a collaborator outside the driver (template, unpacker, mkdir...)
Hook(w, entry) ==
    IF Hit(w) THEN Failed(w)
    ELSE [w EXCEPT !.step = @ + 1, !.err = FALSE, !.log = Append(@, entry)]
Log1(w, entry) == [w EXCEPT !.log = Append(@, entry)]
Ok(w) == [w EXCEPT !.err = FALSE]
Err(w) == [w EXCEPT !.err = TRUE]

\* uuid.NewRandom().String()
NewUuid(w) == UUIDS[w.uu + 1]
DrawUuid(w) == [w EXCEPT !.uu = @ + 1]

----------------------------------------------------------------------------
(* The ZFS CLI adapter.                                                    *)

zfsPoolVolumeExists(w, path) == PathExists(w.ds, FullPath(path))

\* zfs get origin: the full name of the origin snapshot, or "-"
zfsPoolVolumeGetOrigin(w, path) == w.ds[Full(path.fs)].origin

zfsPoolListSnapshots(w, fs) == w.ds[Full(fs)].snaps

\* the clones property of a filesystem is "-", that of a snapshot lists
\* its clones
zfsPoolVolumeSnapshotRemovable(w, path, name) ==
    LET snap == IF name = NoSnap THEN path.snap ELSE name IN
    IF snap = NoSnap THEN TRUE ELSE Clones(w.ds, Full(path.fs), snap) = {}

\* the properties set locally on the datasets (zfs get -o source says
\* "local"), kept where the pool's configuration is followed
Tracked(w) == "props" \in DOMAIN w.pool

SetLocal(w, full, key, value) ==
    IF Tracked(w) /\ ~w.err
    THEN [w EXCEPT !.pool.props = Put(@, <<full, key>>, value)]
    ELSE w

ForgetLocal(w, gone) ==
    IF Tracked(w) /\ ~w.err
    THEN [w EXCEPT !.pool.props = Drop(@, {k \in DOMAIN @ : k[1] \in gone})]
    ELSE w

\* zfs create -p of a path in a pool that does not exist fails
zfsPoolVolumeCreate(w, fs) ==
    LET full == Full(fs) IN
    IF Hit(w) \/ ~Exists(w.ds, onDiskPoolName) THEN Failed(w)
    ELSE IF Exists(w.ds, full) THEN Done(w, w.ds, <<"create", fs>>)
    ELSE Done(w, Put(WithParents(w.ds, full), full, NewFs(NoOrigin, None, FALSE)),
              <<"create", fs>>)

zfsPoolVolumeSet(w, fs, key, value) ==
    LET full == Full(fs) IN
    IF Hit(w) \/ ~Exists(w.ds, full) THEN Failed(w)
    ELSE IF key # "mountpoint"
    THEN SetLocal(Done(w, w.ds, <<"set", fs, key>>), full, key, value)
    ELSE SetLocal(Done(w, [w.ds EXCEPT ![full] =
                             [@ EXCEPT !.mountpoint = value,
                                       !.mounted = IF value = None THEN FALSE
                                                   ELSE @ \/ w.ds[full].mountpoint = None]],
                       <<"set", fs, key>>),
                  full, key, value)

zfsPoolVolumeClone(w, source, name, dest, mountpoint) ==
    LET src == Full(source)
        dst == Full(dest)
    IN  IF Hit(w) \/ ~SnapExists(w.ds, src, name) \/ Exists(w.ds, dst)
        THEN Failed(Log1(w, <<"clone", dest>>))
        ELSE Done(w, Put(WithParents(w.ds, dst), dst,
                         NewFs(Path(src, name), mountpoint, TRUE)),
                  <<"clone", dest>>)

\* syscall.Unmount(mountpoint, MNT_DETACH): whatever is mounted there
Unmounted(ds, mnt) ==
    [d \in DOMAIN ds |->
        IF ds[d].mountpoint = mnt THEN [ds[d] EXCEPT !.mounted = FALSE] ELSE ds[d]]

\* zfs get mountpoint fails on a missing dataset before anything else runs;
\* the mountpoint, if mounted, is unmounted before zfs destroy -r is tried
zfsPoolVolumeDestroy(w, path) ==
    LET full == Full(path.fs) IN
    IF ~PathExists(w.ds, FullPath(path)) THEN Err(w)
    ELSE IF path.snap # NoSnap
    THEN IF Hit(w) \/ Clones(w.ds, full, path.snap) # {} THEN Failed(w)
         ELSE Done(w, [w.ds EXCEPT ![full].snaps = RemoveSnap(@, path.snap)],
                   <<"destroy", path.fs, path.snap>>)
    ELSE LET ds1 == IF w.ds[full].mountpoint # None
                    THEN Unmounted(w.ds, w.ds[full].mountpoint) ELSE w.ds
         IN  IF Hit(w) \/ DestroyBlocked(ds1, full)
             THEN [Failed(w) EXCEPT !.ds = ds1]
             ELSE ForgetLocal(Done(w, Drop(ds1, Subtree(ds1, full)),
                                   <<"destroy", path.fs>>),
                              Subtree(ds1, full))

zfsPoolVolumeSnapshotDestroy(w, fs, name) ==
    LET full == Full(fs) IN
    IF Hit(w) \/ ~SnapExists(w.ds, full, name) \/ Clones(w.ds, full, name) # {}
    THEN Failed(w)
    ELSE Done(w, [w.ds EXCEPT ![full].snaps = RemoveSnap(@, name)],
              <<"destroy", fs, name>>)

zfsPoolVolumeSnapshotCreate(w, fs, name) ==
    LET full == Full(fs) IN
    IF Hit(w) \/ ~Exists(w.ds, full) \/ SnapExists(w.ds, full, name)
    THEN Failed(w)
    ELSE Done(w, [w.ds EXCEPT ![full].snaps = Append(@, name)],
              <<"snapshot", fs, name>>)

zfsPoolVolumeSnapshotRename(w, fs, oldName, newName) ==
    LET full == Full(fs) IN
    IF Hit(w) \/ ~SnapExists(w.ds, full, oldName) \/ SnapExists(w.ds, full, newName)
    THEN Failed(w)
    ELSE Done(w, SnapRenamed(w.ds, full, oldName, newName),
              <<"rename", fs, oldName>>)

\* for i := 0; i < 20; i++
RenameAttempts == 20

\* what the attempts of one zfsPoolVolumeRename call do: the first
\* `failures` of them exit non-zero without effect, and the one after them
\* exits 0 ("exit0"), exits non-zero like them ("fail"), or exits non-zero
\* having renamed the dataset ("moved": "zfs rename can fail because of
\* descendants, yet still manage the rename")
RenameOutcomes == {"exit0", "fail", "moved"}
OutcomeAt(plan, i) == IF i <= plan.failures THEN "fail" ELSE plan.then

\* a rename command the fault plan lets through exits 0 at once, one it
\* fails exits non-zero at every attempt
PlanOf(w) ==
    IF Hit(w) THEN [failures |-> RenameAttempts, then |-> "fail"]
    ELSE [failures |-> 0, then |-> "exit0"]

\* one zfs rename -p: refused when the source is missing or the
\* destination exists
zfsRename(ds, src, dst, outcome) ==
    IF ~Exists(ds, src) \/ Exists(ds, dst) \/ outcome = "fail"
    THEN [ds |-> ds, exit |-> 1]
    ELSE [ds |-> Renamed(ds, src, dst), exit |-> IF outcome = "exit0" THEN 0 ELSE 1]

\* a check that never finds the rename done
RenameNeverSettled(w, source, dest) == FALSE

\* !s.zfsPoolVolumeExists(source) && s.zfsPoolVolumeExists(dest)
RenameSettled(w, source, dest) ==
    /\ ~zfsPoolVolumeExists(w, FsPath(source))
    /\ zfsPoolVolumeExists(w, FsPath(dest))

\* the world with the pool one attempt leaves
Attempted(w, a, source, dest) ==
    IF a.ds = w.ds THEN w
    ELSE [w EXCEPT !.ds = a.ds, !.log = Append(@, <<"rename", source, dest>>),
                   !.graveOk = @ /\ DeletedMountpointNone(a.ds)]

\* what the loop saw of one attempt
Seen(a, source, dest) ==
    [exit |-> a.exit, source |-> Exists(a.ds, Full(source)),
     dest |-> Exists(a.ds, Full(dest))]

\* the retry loop from attempt i on; trace holds the attempts made so far,
\* a is what attempt i did
RECURSIVE RenameLoop(_, _, _, _, _, _)
RenameAttempt(w, source, dest, plan, i, trace, a) ==
    IF a.exit = 0 \/ RenameSettled(Attempted(w, a, source, dest), source, dest)
    THEN [world |-> [Attempted(w, a, source, dest)
                        EXCEPT !.step = @ + 1, !.err = FALSE],
          trace |-> Append(trace, Seen(a, source, dest))]
    ELSE RenameLoop(Attempted(w, a, source, dest), source, dest, plan, i + 1,
                    Append(trace, Seen(a, source, dest)))

RenameLoop(w, source, dest, plan, i, trace) ==
    IF i > RenameAttempts THEN [world |-> Failed(w), trace |-> trace]
    ELSE RenameAttempt(w, source, dest, plan, i, trace,
                       zfsRename(w.ds, Full(source), Full(dest), OutcomeAt(plan, i)))

\* the attempts of the loop count as one command of the call in its fault
\* plan
zfsPoolVolumeRename(w, source, dest) ==
    RenameLoop(w, source, dest, PlanOf(w), 1, <<>>).world

\* zfs list -r -t filesystem below path, path itself left out; each name
\* goes through strings.TrimPrefix(entry, s.pool.Name + "/")
zfsPoolListSubvolumes(w, fs) ==
    {TrimPrefix(d, <<PoolName>>) : d \in Subtree(w.ds, Full(fs)) \ {Full(fs)}}

\* zfs rollback without -r refuses a snapshot that is not the latest one
\* of its filesystem
Rollback(w, full, name) ==
    IF \/ Hit(w) \/ ~SnapExists(w.ds, full, name)
       \/ w.ds[full].snaps[Len(w.ds[full].snaps)] # name
    THEN Failed(w)
    ELSE Done(w, w.ds, <<"rollback", full, name>>)

RECURSIVE RollbackSubvolumes(_, _, _)
RollbackSubvolumes(w, subs, name) ==
    IF subs = {} THEN Ok(w)
    ELSE LET sub == CHOOSE d \in subs : TRUE
             wr == IF ~Exists(w.ds, Full(sub)) THEN Err(w)
                   ELSE IF SnapExists(w.ds, Full(sub), name)
                   THEN Rollback(w, Full(sub), name)
                   ELSE w
         IN  IF wr.err THEN wr ELSE RollbackSubvolumes(wr, subs \ {sub}, name)

zfsPoolVolumeSnapshotRestore(w, fs, name) ==
    LET wr == Rollback(w, Full(fs), name) IN
    IF wr.err THEN wr
    ELSE RollbackSubvolumes(wr, zfsPoolListSubvolumes(wr, fs), name)

zfsPoolVolumeMount(w, fs) ==
    LET full == Full(fs) IN
    IF \/ Hit(w) \/ ~Exists(w.ds, full)
       \/ w.ds[full].mounted \/ w.ds[full].mountpoint = None
    THEN Failed(Log1(w, <<"mount", fs>>))
    ELSE Done(w, [w.ds EXCEPT ![full].mounted = TRUE], <<"mount", fs>>)

zfsPoolVolumeUmount(w, fs) ==
    LET full == Full(fs) IN
    IF Hit(w) \/ ~Exists(w.ds, full) \/ ~w.ds[full].mounted
    THEN Failed(Log1(w, <<"unmount", fs>>))
    ELSE Done(w, [w.ds EXCEPT ![full].mounted = FALSE], <<"unmount", fs>>)

\* shared.IsMountPoint(mnt): some dataset is mounted at mnt
IsMountPoint(w, mnt) ==
    \E d \in DOMAIN w.ds : w.ds[d].mounted /\ w.ds[d].mountpoint = mnt

----------------------------------------------------------------------------
(* The directories and symlinks the driver itself makes and removes: the   *)
(* snapshot mountpoints storage-pools/<pool>/snapshots/<c>[/<s>] and the   *)
(* symlinks <var>/snapshots/<c>.  w.files.dirs is the set of directories,  *)
(* w.files.links the set of <<symlink, target>> pairs.                     *)

NoFiles == [dirs |-> {}, links |-> {}]

VarPath(kind, name) == <<"var", kind, name>>

\* the mountpoint of the snapshot container "<c>/<s>"
\* s.volume.Name of the driver a snapshot is made through: the container
VolumeName(c) == c

SnapshotMountPoint(c, s) == getSnapshotMountPoint(PoolName, c) \o <<s>>

IsLink(w, p) == \E l \in w.files.links : l[1] = p
IsDir(w, p) == p \in w.files.dirs

\* shared.PathExists: lstat, so a dangling symlink exists
sharedPathExists(w, p) == IsDir(w, p) \/ IsLink(w, p)

Below(w, p) == {d \in w.files.dirs : IsPrefix(p, d)}

\* shared.PathIsEmpty follows a symlink and fails (false) on a missing path
sharedPathIsEmpty(w, p) ==
    LET t == IF IsLink(w, p) THEN (CHOOSE l \in w.files.links : l[1] = p)[2]
             ELSE p
    IN  IsDir(w, t) /\ Below(w, t) = {t}

FileDone(w, f, entry) ==
    [w EXCEPT !.step = @ + 1, !.err = FALSE, !.files = f,
              !.log = Append(@, entry)]

\* the components above storage-pools/<pool>/snapshots exist already
osMkdirAll(w, p) ==
    IF Hit(w) \/ IsLink(w, p) THEN Failed(w)
    ELSE FileDone(w, [w.files EXCEPT !.dirs =
                         @ \cup {SubSeq(p, 1, n) : n \in 4..Len(p)}],
                  <<"MkdirAll", p>>)

osSymlink(w, target, p) ==
    IF Hit(w) \/ sharedPathExists(w, p) THEN Failed(w)
    ELSE FileDone(w, [w.files EXCEPT !.links = @ \cup {<<p, target>>}],
                  <<"Symlink", p>>)

\* rename(2) of a directory: the destination may be an empty directory
osRename(w, old, new) ==
    IF \/ Hit(w) \/ ~IsDir(w, old) \/ IsLink(w, new)
       \/ (IsDir(w, new) /\ Below(w, new) # {new})
    THEN Failed(w)
    ELSE FileDone(w, [w.files EXCEPT !.dirs =
                         (@ \ Below(w, old)) \cup
                         {new \o SubSeq(d, Len(old) + 1, Len(d)) : d \in Below(w, old)}],
                  <<"Rename", old, new>>)

\* os.Remove: a symlink or an empty directory
osRemove(w, p) ==
    IF Hit(w) THEN Failed(w)
    ELSE IF IsLink(w, p)
    THEN FileDone(w, [w.files EXCEPT !.links = {l \in @ : l[1] # p}],
                  <<"Remove", p>>)
    ELSE IF IsDir(w, p) /\ Below(w, p) = {p}
    THEN FileDone(w, [w.files EXCEPT !.dirs = @ \ {p}], <<"Remove", p>>)
    ELSE Failed(w)

\* os.RemoveAll: no error on a missing path
osRemoveAll(w, p) ==
    IF Hit(w) THEN Failed(w)
    ELSE FileDone(w, [dirs |-> w.files.dirs \ Below(w, p),
                      links |-> {l \in w.files.links : l[1] # p}],
                  <<"RemoveAll", p>>)

----------------------------------------------------------------------------
(* ContainerMount and ContainerUmount, statement by statement.             *)
(* pc: start -> locked1 -> (wait | check -> [zfs -> zfsexit ->]            *)
(*     relock -> locked2 -> return) -> done                                *)

NoRet == [didWork |-> FALSE, err |-> FALSE]
EmptyMap == [k \in {} |-> NoChannel]

CoordNames == {"c1"}
MountCalls == [op : {"mount", "umount"}, name : CoordNames]

LockID(c) ==
    IF c.op = "mount" THEN getContainerMountLockID(PoolName, c.name)
    ELSE IF c.op = "umount" THEN getContainerUmountLockID(PoolName, c.name)
    ELSE getImageCreateLockID(PoolName, c.fp)

ContainerFs(name) == <<"containers", name>>

Goto(t, to) == pc' = [pc EXCEPT ![t] = to]

\* lxdStorageMapLock.Lock()
Lock(t, from, to) ==
    /\ pc[t] = from
    /\ lxdStorageMapLock = NoThread
    /\ lxdStorageMapLock' = t
    /\ Goto(t, to)
    /\ UNCHANGED <<dataset, datasets, imageDb, uuidNext, log, last, faultsUsed, opsDone, files, prev, before, mig, poolState,
                   lxdStorageOngoingOperationMap, channels, call, waitChannel,
                   made, ourMount, imgerr, invoked, ret>>

\* EnterSection without the lookup: every caller inserts a channel
EnterSectionNoLookup(t, from, waiter, leader) ==
    /\ pc[t] = from
    /\ lxdStorageMapLock = t
    /\ lxdStorageMapLock' = NoThread
    /\ channels' = Append(channels, 0)
    /\ lxdStorageOngoingOperationMap' =
         [k \in DOMAIN lxdStorageOngoingOperationMap \cup {LockID(call[t])} |->
            IF k = LockID(call[t]) THEN Len(channels) + 1
            ELSE lxdStorageOngoingOperationMap[k]]
    /\ made' = [made EXCEPT ![t] = Len(channels) + 1]
    /\ Goto(t, leader)
    /\ UNCHANGED <<dataset, datasets, imageDb, uuidNext, log, last, faultsUsed, opsDone, files, prev, before, mig, poolState, call,
                   waitChannel, ourMount, imgerr, invoked, ret>>

\* the table lookup under the lock: an entry makes the caller a waiter,
\* no entry makes it insert a fresh channel
EnterSection(t, from, waiter, leader) ==
    /\ pc[t] = from
    /\ lxdStorageMapLock = t
    /\ lxdStorageMapLock' = NoThread
    /\ IF LockID(call[t]) \in DOMAIN lxdStorageOngoingOperationMap
       THEN /\ waitChannel' = [waitChannel EXCEPT ![t] =
                                 lxdStorageOngoingOperationMap[LockID(call[t])]]
            /\ Goto(t, waiter)
            /\ UNCHANGED <<lxdStorageOngoingOperationMap, channels, made>>
       ELSE /\ channels' = Append(channels, 0)
            /\ lxdStorageOngoingOperationMap' =
                 [k \in DOMAIN lxdStorageOngoingOperationMap \cup {LockID(call[t])} |->
                    IF k = LockID(call[t]) THEN Len(channels) + 1
                    ELSE lxdStorageOngoingOperationMap[k]]
            /\ made' = [made EXCEPT ![t] = Len(channels) + 1]
            /\ Goto(t, leader)
            /\ UNCHANGED waitChannel
    /\ UNCHANGED <<dataset, datasets, imageDb, uuidNext, log, last, faultsUsed, opsDone, files, prev, before, mig, poolState, call,
                   ourMount, imgerr, invoked, ret>>

\* a receive that does not wait for the close
ReceivedAtOnce(t) == TRUE

\* <-waitChannel: nothing is ever sent, so the receive returns once the
\* channel is closed
Received(t) == channels[waitChannel[t]] > 0

\* a leader that deletes its entry and leaves the channel open
LeaveSectionNoClose(t, from, to) ==
    /\ pc[t] = from
    /\ lxdStorageMapLock = t
    /\ lxdStorageMapLock' = NoThread
    /\ lxdStorageOngoingOperationMap' =
         [k \in DOMAIN lxdStorageOngoingOperationMap \ {LockID(call[t])} |->
            lxdStorageOngoingOperationMap[k]]
    /\ Goto(t, to)
    /\ UNCHANGED <<dataset, datasets, imageDb, uuidNext, log, last, faultsUsed, opsDone, files, prev, before, mig, poolState, call,
                   channels, waitChannel, made, ourMount, imgerr, invoked, ret>>

\* close(waitChannel); delete(map, key), when the key is still in the table
LeaveSection(t, from, to) ==
    /\ pc[t] = from
    /\ lxdStorageMapLock = t
    /\ lxdStorageMapLock' = NoThread
    /\ IF LockID(call[t]) \in DOMAIN lxdStorageOngoingOperationMap
       THEN /\ channels' = [channels EXCEPT
                    ![lxdStorageOngoingOperationMap[LockID(call[t])]] = @ + 1]
            /\ lxdStorageOngoingOperationMap' =
                 [k \in DOMAIN lxdStorageOngoingOperationMap \ {LockID(call[t])} |->
                    lxdStorageOngoingOperationMap[k]]
       ELSE UNCHANGED <<lxdStorageOngoingOperationMap, channels>>
    /\ Goto(t, to)
    /\ UNCHANGED <<dataset, datasets, imageDb, uuidNext, log, last, faultsUsed, opsDone, files, prev, before, mig, poolState, call,
                   waitChannel, made, ourMount, imgerr, invoked, ret>>

IsMountCall(t) == call[t].op \in {"mount", "umount"}

Lock1(t) == IsMountCall(t) /\ Lock(t, "start", "locked1")

Enter(t) == IsMountCall(t) /\ EnterSection(t, "locked1", "wait", "check")

\* the waiter's return: return false, nil
WaiterReturn(t) ==
    /\ IsMountCall(t)
    /\ pc[t] = "wait"
    /\ Received(t)
    /\ ret' = [ret EXCEPT ![t] = [didWork |-> FALSE, err |-> FALSE]]
    /\ Goto(t, "done")
    /\ UNCHANGED <<dataset, datasets, imageDb, uuidNext, log, last, faultsUsed, opsDone, files, prev, before, mig, poolState,
                   lxdStorageMapLock, lxdStorageOngoingOperationMap, channels,
                   call, waitChannel, made, ourMount, imgerr, invoked>>

\* whether the call has work to do: mount when the mountpoint is not
\* mounted, unmount when it is
NeedsZfs(c, mounted) == IF c.op = "mount" THEN ~mounted ELSE mounted

\* if !shared.IsMountPoint(mnt) { ... }   (ContainerUmount: if IsMountPoint)
Check(t) ==
    /\ IsMountCall(t)
    /\ pc[t] = "check"
    /\ IF NeedsZfs(call[t], IsMountPoint(World({}),
                            getContainerMountPoint(PoolName, call[t].name)))
       THEN Goto(t, "zfs")
       ELSE Goto(t, "relock")
    /\ UNCHANGED <<dataset, datasets, imageDb, uuidNext, log, last, faultsUsed, opsDone, files, prev, before, mig, poolState,
                   lxdStorageMapLock, lxdStorageOngoingOperationMap, channels,
                   call, waitChannel, made, ourMount, imgerr, invoked, ret>>

ZfsCommand(w, c) ==
    IF c.op = "mount" THEN zfsPoolVolumeMount(w, ContainerFs(c.name))
    ELSE zfsPoolVolumeUmount(w, ContainerFs(c.name))

\* the zfs mount / zfs unmount subprocess does its work (or fails)
Zfs(t) ==
    /\ IsMountCall(t)
    /\ pc[t] = "zfs"
    /\ \E fails \in {{}, {1}} :
         \E w \in {ZfsCommand(World(fails), call[t])} :
         /\ datasets' = w.ds
         /\ imgerr' = [imgerr EXCEPT ![t] = w.err]
    /\ invoked' = [invoked EXCEPT ![t] = @ + 1]
    /\ Goto(t, "zfsexit")
    /\ UNCHANGED <<dataset, imageDb, uuidNext, log, last, faultsUsed, opsDone, files, prev, before, mig, poolState, lxdStorageMapLock,
                   lxdStorageOngoingOperationMap, channels, call, waitChannel,
                   made, ourMount, ret>>

\* the subprocess has exited and the call returns to the driver:
\* ourMount = true
ZfsExit(t) ==
    /\ IsMountCall(t)
    /\ pc[t] = "zfsexit"
    /\ ourMount' = [ourMount EXCEPT ![t] = TRUE]
    /\ Goto(t, "relock")
    /\ UNCHANGED <<dataset, datasets, imageDb, uuidNext, log, last, faultsUsed, opsDone, files, prev, before, mig, poolState,
                   lxdStorageMapLock, lxdStorageOngoingOperationMap, channels,
                   call, waitChannel, made, imgerr, invoked, ret>>

Lock2(t) == IsMountCall(t) /\ Lock(t, "relock", "locked2")

Leave(t) == IsMountCall(t) /\ LeaveSection(t, "locked2", "return")

\* return ourMount, imgerr
LeaderResultOurMount(our, err) == [didWork |-> our, err |-> err]

\* if imgerr != nil { return false, imgerr }; return ourMount, nil
LeaderResult(our, err) ==
    IF err THEN [didWork |-> FALSE, err |-> TRUE]
    ELSE [didWork |-> our, err |-> FALSE]

LeaderReturn(t) ==
    /\ IsMountCall(t)
    /\ pc[t] = "return"
    /\ ret' = [ret EXCEPT ![t] = LeaderResult(ourMount[t], imgerr[t])]
    /\ Goto(t, "done")
    /\ UNCHANGED <<dataset, datasets, imageDb, uuidNext, log, last, faultsUsed, opsDone, files, prev, before, mig, poolState,
                   lxdStorageMapLock, lxdStorageOngoingOperationMap, channels,
                   call, waitChannel, made, ourMount, imgerr, invoked>>

\* the pool of the coordinator models: the schema roots and the containers
Roots == {<<PoolName>>, <<PoolName, "containers">>, <<PoolName, "images">>,
          <<PoolName, "custom">>, <<PoolName, "deleted">>}

MountPools ==
    {[d \in Roots \cup {<<PoolName, "containers", n>> : n \in CoordNames} |->
        IF d \in Roots THEN NewFs(NoOrigin, None, FALSE)
        ELSE NewFs(NoOrigin, getContainerMountPoint(PoolName, d[3]), m[d[3]])] :
     m \in [CoordNames -> BOOLEAN]}

\* no migration is under way
NoMigration == [live |-> FALSE]

\* a pool whose configuration and pool-level properties play no part
NoPool == [source |-> <<>>]

\* what zfs list and zfs get mountpoint show of a pool
Listing(ds) ==
    [d \in DOMAIN ds |-> [snaps |-> ds[d].snaps, mountpoint |-> ds[d].mountpoint]]

\* the specifications that do not look back beyond the last call keep no
\* record of the calls before it
NoListing == [d \in {} |-> 0]
NoHistory == [last |-> NoListing, prev |-> NoListing]

NoCall == [op |-> "none", name |-> "", arg |-> "", arg2 |-> "", err |-> FALSE]

InitCoord ==
    /\ dataset = <<>>
    /\ imageDb = {}
    /\ uuidNext = 0
    /\ log = <<>>
    /\ last = NoCall
    /\ faultsUsed = 0
    /\ opsDone = 0
    /\ files = NoFiles
    /\ prev = NoCall
    /\ before = NoHistory
    /\ mig = NoMigration
    /\ poolState = NoPool
    /\ lxdStorageMapLock = NoThread
    /\ lxdStorageOngoingOperationMap = EmptyMap
    /\ channels = <<>>
    /\ pc = [t \in Threads |-> "start"]
    /\ waitChannel = [t \in Threads |-> NoChannel]
    /\ made = [t \in Threads |-> NoChannel]
    /\ ourMount = [t \in Threads |-> FALSE]
    /\ imgerr = [t \in Threads |-> FALSE]
    /\ invoked = [t \in Threads |-> 0]
    /\ ret = [t \in Threads |-> NoRet]

InitMount ==
    /\ InitCoord
    /\ datasets \in MountPools
    /\ call \in [Threads -> MountCalls]

NextMount ==
    \E t \in Threads :
        \/ Lock1(t)
        \/ Enter(t)
        \/ WaiterReturn(t)
        \/ Check(t)
        \/ Zfs(t)
        \/ ZfsExit(t)
        \/ Lock2(t)
        \/ Leave(t)
        \/ LeaderReturn(t)

SpecMount == InitMount /\ [][NextMount]_vars

----------------------------------------------------------------------------
(* Claims about the mount coordinator (specification SpecMount).           *)

Returned(t) == pc[t] = "done"
IsLeader(t) == made[t] # NoChannel
IsWaiter(t) == waitChannel[t] # NoChannel
\* the thread has decided to run zfs and the subprocess has not returned
InZfs(t) == pc[t] \in {"zfs", "zfsexit"}
ZfsSucceeded(t) == invoked[t] > 0 /\ ~imgerr[t]
ZfsFailed(t) == invoked[t] > 0 /\ imgerr[t]
AllMount(n) == \A t \in Threads : call[t] = [op |-> "mount", name |-> n]
Mounted(n) == datasets[Full(ContainerFs(n))].mounted
FalseNil == [didWork |-> FALSE, err |-> FALSE]

\* C1 as stated, read on a container that some call found unmounted: when
\* every call is ContainerMount of the same container, at most one zfs
\* mount is invoked, and once all calls have returned exactly one returned
\* didWork=true and every other one (false, nil).
C1_AsStated ==
    \A n \in CoordNames : AllMount(n) =>
        /\ Cardinality({t \in Threads : invoked[t] > 0}) <= 1
        /\ ((\A t \in Threads : Returned(t)) /\ (\E t \in Threads : invoked[t] > 0)) =>
              \E t \in Threads :
                  /\ ret[t].didWork
                  /\ \A u \in Threads \ {t} : ret[u] = FalseNil

\* C1 as amended: when every call is ContainerMount of the same container,
\* at most one zfs mount is in flight at a time, none is started once one
\* has succeeded (so at most one succeeds and every further invocation
\* follows a failed one); a caller returns didWork=true exactly when its
\* own zfs mount succeeded, so at most one does, and returns an error
\* exactly when its own zfs mount failed; when all calls returned without
\* invoking zfs mount the dataset was mounted already.
C1_SingleMount ==
    \A n \in CoordNames : AllMount(n) =>
        /\ \A t \in Threads : pc[t] = "zfs" =>
              \A u \in Threads \ {t} : ~InZfs(u) /\ ~ZfsSucceeded(u)
        /\ Cardinality({t \in Threads : ZfsSucceeded(t)}) <= 1
        /\ Cardinality({t \in Threads : invoked[t] > 0})
              <= 1 + Cardinality({t \in Threads : ZfsFailed(t)})
        /\ \A t \in Threads : Returned(t) =>
              /\ ret[t].didWork <=> ZfsSucceeded(t)
              /\ ret[t].err <=> ZfsFailed(t)
        /\ ((\A t \in Threads : Returned(t) /\ invoked[t] = 0) => Mounted(n))

\* three ContainerMount calls of one container have returned: one mounted,
\* and at least one of the others waited on its channel
C1_Witness ==
    \E n \in CoordNames :
        /\ AllMount(n)
        /\ \A t \in Threads : Returned(t)
        /\ Cardinality({t \in Threads : ret[t].didWork}) = 1
        /\ \E t \in Threads : IsWaiter(t) /\ ret[t] = FalseNil

\* C2 as stated: ContainerMount and ContainerUmount of the same container
\* never run their ZFS operations at the same time.
C2_AsStated ==
    \A t, u \in Threads :
        (t # u /\ call[t].name = call[u].name) => ~(InZfs(t) /\ InZfs(u))

\* C2 as amended: calls of the same kind for the same container are
\* serialized: two ContainerMount calls never run zfs mount at the same
\* time, nor two ContainerUmount calls zfs unmount.
C2_SameKindSerialized ==
    \A t, u \in Threads :
        (t # u /\ call[t] = call[u]) => ~(InZfs(t) /\ InZfs(u))

\* a call runs its ZFS operation while a call of the same kind waits on it
C2_Witness ==
    \E t, u \in Threads :
        /\ t # u
        /\ call[t] = call[u]
        /\ InZfs(t)
        /\ pc[u] = "wait"
        /\ waitChannel[u] = made[t]

\* C3: a caller that found a channel registered for its key runs no ZFS
\* operation, returns only after that channel was closed, and returns
\* (false, nil), also when the call that registered the channel failed.
C3_WaiterContract ==
    \A t \in Threads : IsWaiter(t) =>
        /\ invoked[t] = 0
        /\ ~IsLeader(t)
        /\ pc[t] \in {"wait", "done"}
        /\ Returned(t) => /\ ret[t] = FalseNil
                          /\ channels[waitChannel[t]] > 0

\* a waiter has returned (false, nil) although its leader's zfs command
\* failed
C3_Witness ==
    \E t, u \in Threads :
        /\ IsWaiter(t)
        /\ Returned(t)
        /\ waitChannel[t] = made[u]
        /\ ZfsFailed(u)
        /\ ret[t] = FalseNil

\* C4 as stated, read on leaders that ran the ZFS operation: they return
\* didWork=true together with the operation's error.
C4_AsStated ==
    \A t \in Threads : (IsLeader(t) /\ Returned(t) /\ invoked[t] = 1) =>
        /\ ret[t].didWork
        /\ ret[t].err <=> imgerr[t]

\* C4 as amended: a caller that finds no channel for its key inserts a
\* fresh channel, which stays open and in the table while it works, runs
\* the ZFS operation at most once, closes the channel exactly once and
\* removes the entry, and returns (true, nil) when the operation ran and
\* succeeded, (false, err) when it failed, and (false, nil) when it did not
\* run.
C4_LeaderContract ==
    \A t \in Threads : IsLeader(t) =>
        /\ ~IsWaiter(t)
        /\ \A u \in Threads \ {t} : made[u] # made[t]
        /\ invoked[t] <= 1
        /\ pc[t] \in {"check", "zfs", "zfsexit", "relock", "locked2"} =>
              /\ LockID(call[t]) \in DOMAIN lxdStorageOngoingOperationMap
              /\ lxdStorageOngoingOperationMap[LockID(call[t])] = made[t]
              /\ channels[made[t]] = 0
        /\ pc[t] \in {"return", "done"} =>
              /\ channels[made[t]] = 1
              /\ \A k \in DOMAIN lxdStorageOngoingOperationMap :
                    lxdStorageOngoingOperationMap[k] # made[t]
        /\ Returned(t) =>
              ret[t] = IF invoked[t] = 0 THEN FalseNil
                       ELSE IF imgerr[t] THEN [didWork |-> FALSE, err |-> TRUE]
                       ELSE [didWork |-> TRUE, err |-> FALSE]

\* a leader whose zfs command failed has returned (false, err)
C4_Witness ==
    \E t \in Threads :
        /\ IsLeader(t)
        /\ Returned(t)
        /\ ZfsFailed(t)
        /\ ret[t] = [didWork |-> FALSE, err |-> TRUE]
        /\ channels[made[t]] = 1

----------------------------------------------------------------------------
(* The driver methods as one caller runs them.  A deferred function runs   *)
(* when the method returns and its own result is dropped: the method       *)
(* returns the error it had.                                               *)

Deferred(w, err) == [w EXCEPT !.err = err]

ImageFs(fp) == <<"images", fp>>
DeletedImageFs(fp) == <<"deleted">> \o ImageFs(fp)
ReadOnly == <<"readonly">>
Snapshot(s) == <<"snapshot", s>>
Copy(u) == <<"copy", u>>
\* the directory ioutil.TempDir makes under the images mountpoint
TmpImageDir == <<"storage-pools", PoolName, "images", "tmp">>

\* origin = strings.TrimPrefix(origin, s.pool.Name + "/")
TrimOrigin(origin) == Path(TrimPrefix(origin.fs, <<PoolName>>), origin.snap)

\* the catalog's record of the image's pool volume
createImageDbPoolVolume(w, fp) ==
    IF Hit(w) THEN Failed(w)
    ELSE [w EXCEPT !.step = @ + 1, !.err = FALSE, !.db = @ \cup {fp},
                   !.log = Append(@, <<"createImageDbPoolVolume", fp>>)]

deleteImageDbPoolVolume(w, fp) ==
    IF Hit(w) THEN Failed(w)
    ELSE [w EXCEPT !.step = @ + 1, !.err = FALSE, !.db = @ \ {fp},
                   !.log = Append(@, <<"deleteImageDbPoolVolume", fp>>)]

\* the sequential path of ContainerMount: no other caller holds the key
ContainerMount(w, name) ==
    LET c == [op |-> "mount", name |-> name]
        needed == NeedsZfs(c, IsMountPoint(w, getContainerMountPoint(PoolName, name)))
        w1 == IF needed THEN ZfsCommand(w, c) ELSE Ok(w)
        r == LeaderResult(needed, w1.err)
    IN  [w1 EXCEPT !.didWork = r.didWork, !.err = r.err]

ContainerUmount(w, name) ==
    LET c == [op |-> "umount", name |-> name]
        needed == NeedsZfs(c, IsMountPoint(w, getContainerMountPoint(PoolName, name)))
        w1 == IF needed THEN ZfsCommand(w, c) ELSE Ok(w)
        r == LeaderResult(needed, w1.err)
    IN  [w1 EXCEPT !.didWork = r.didWork, !.err = r.err]

\* a cleanup that does not look where the path lies
CleanupAnywhere(w, path) ==
    IF path = NoOrigin \/ ~zfsPoolVolumeExists(w, path) THEN Ok(w)
    ELSE IF zfsPoolVolumeSnapshotRemovable(w, path, NoSnap)
    THEN zfsPoolVolumeDestroy(w, path)
    ELSE Ok(w)

RECURSIVE zfsPoolVolumeCleanup(_, _)
zfsPoolVolumeCleanup(w, path) ==
    IF IsPrefix(<<"deleted">>, path.fs) /\ Len(path.fs) > 1
    THEN IF ~zfsPoolVolumeExists(w, path) THEN Err(w)
         ELSE IF ~zfsPoolVolumeSnapshotRemovable(w, path, NoSnap) THEN Ok(w)
         ELSE IF path.snap # NoSnap
         THEN LET wd == zfsPoolVolumeDestroy(w, path) IN
              IF wd.err THEN wd
              ELSE IF Len(zfsPoolListSnapshots(wd, path.fs)) = 0
              THEN zfsPoolVolumeCleanup(wd, FsPath(path.fs))
              ELSE Ok(wd)
         ELSE LET origin == TrimOrigin(zfsPoolVolumeGetOrigin(w, path))
                  wd == zfsPoolVolumeDestroy(w, path)
              IN  IF wd.err THEN wd
                  ELSE IF origin # NoOrigin THEN zfsPoolVolumeCleanup(wd, origin)
                  ELSE Ok(wd)
    ELSE IF /\ path.fs[1] = "containers"
            /\ path.snap # NoSnap
            /\ path.snap[1] = "copy"
    THEN zfsPoolVolumeDestroy(w, path)
    ELSE Ok(w)

\* a delete that never finds a clone
NoneCloned(w, fs) == TRUE

\* the loop over the snapshots stops at the first one that has a clone
AllRemovable(w, fs) ==
    \A i \in 1..Len(zfsPoolListSnapshots(w, fs)) :
        zfsPoolVolumeSnapshotRemovable(w, FsPath(fs), zfsPoolListSnapshots(w, fs)[i])

\* the move to the graveyard without the mountpoint reset
ContainerBuryMounted(w, fs) ==
    zfsPoolVolumeRename(DrawUuid(w), fs, <<"deleted", "containers", NewUuid(w)>>)

\* ContainerDelete when a snapshot still has a clone: mountpoint none,
\* rename to deleted/containers/<uuid>
ContainerBury(w, fs) ==
    LET ws == zfsPoolVolumeSet(w, fs, "mountpoint", None) IN
    IF ws.err THEN ws
    ELSE zfsPoolVolumeRename(DrawUuid(ws), fs,
                             <<"deleted", "containers", NewUuid(ws)>>)

\* a delete that leaves the dataset where it is
ContainerDeleteKeep(w, name) == Ok(w)

\* ContainerDelete, the dataset: destroyed with its origin cleaned up, or
\* buried
DeleteDataset(w, name) ==
    LET fs == ContainerFs(name) IN
    IF ~zfsPoolVolumeExists(w, FsPath(fs)) THEN Ok(w)
    ELSE IF AllRemovable(w, fs)
    THEN LET origin == TrimOrigin(zfsPoolVolumeGetOrigin(w, FsPath(fs)))
             wd == zfsPoolVolumeDestroy(w, FsPath(fs))
         IN  IF wd.err THEN wd ELSE zfsPoolVolumeCleanup(wd, origin)
    ELSE ContainerBury(w, fs)

\* ContainerDelete, after the dataset: the mountpoint, then snapshots/<name>
\* whose destroy may fail
DeleteMountpoint(w, name) ==
    IF w.err THEN w
    ELSE LET wh == Hook(w, <<"deleteContainerMountpoint", name>>) IN
         IF wh.err THEN wh
         ELSE Ok(zfsPoolVolumeDestroy(wh, FsPath(<<"snapshots", name>>)))

\* ContainerDelete, the snapshot directory of the container
DeleteSnapshotDir(w, name) ==
    IF ~w.err /\ sharedPathExists(w, getSnapshotMountPoint(PoolName, name))
    THEN osRemoveAll(w, getSnapshotMountPoint(PoolName, name))
    ELSE w

\* ContainerDelete, the symlink <var>/snapshots/<name>
DeleteSnapshotLink(w, name) ==
    IF ~w.err /\ sharedPathExists(w, VarPath("snapshots", name))
    THEN osRemove(w, VarPath("snapshots", name))
    ELSE w

ContainerDelete(w, name) ==
    DeleteSnapshotLink(
        DeleteSnapshotDir(DeleteMountpoint(DeleteDataset(w, name), name), name),
        name)

ContainerCreate(w, name) ==
    LET fs == ContainerFs(name)
        wc == zfsPoolVolumeCreate(w, fs)
        ws == zfsPoolVolumeSet(wc, fs, "mountpoint",
                               getContainerMountPoint(PoolName, name))
        wm == IF ws.err THEN ws ELSE Hook(ws, <<"createContainerMountpoint", name>>)
        wt == IF wm.err THEN wm ELSE Hook(wm, <<"TemplateApply", name>>)
    IN  IF wc.err THEN wc
        ELSE IF wt.err THEN Deferred(ContainerDelete(wt, name), TRUE)
        ELSE Ok(wt)

ImageDelete(w, fp) ==
    LET fs == ImageFs(fp)
        w1 == IF ~zfsPoolVolumeExists(w, FsPath(fs)) THEN Ok(w)
              ELSE IF ~zfsPoolVolumeExists(w, Path(fs, ReadOnly)) THEN Err(w)
              ELSE IF zfsPoolVolumeSnapshotRemovable(w, FsPath(fs), ReadOnly)
              THEN zfsPoolVolumeDestroy(w, FsPath(fs))
              ELSE LET ws == zfsPoolVolumeSet(w, fs, "mountpoint", None) IN
                   IF ws.err THEN ws
                   ELSE zfsPoolVolumeRename(ws, fs, DeletedImageFs(fp))
    IN  IF w1.err THEN w1 ELSE deleteImageDbPoolVolume(w1, fp)

\* ImageCreate when deleted/images/<fp> exists.  Neither revert nor
\* subrevert is cleared on this path, so both deferred functions run on
\* every return: ImageDelete first, deleteImageDbPoolVolume after it.
ImageResurrect(w, fp) ==
    LET fs == ImageFs(fp)
        wr == zfsPoolVolumeRename(w, DeletedImageFs(fp), fs)
        ws == zfsPoolVolumeSet(wr, fs, "mountpoint",
                               getImageMountPoint(PoolName, fp))
    IN  IF wr.err THEN Deferred(deleteImageDbPoolVolume(wr, fp), TRUE)
        ELSE Deferred(deleteImageDbPoolVolume(ImageDelete(ws, fp), fp), ws.err)

\* cleanup(err): destroy the image volume, return the error
ImageCleanup(w, fp) == Err(zfsPoolVolumeDestroy(w, FsPath(ImageFs(fp))))

\* ImageCreate from the unpack of the image on
ImageUnpack(w, fp) ==
    LET fs == ImageFs(fp)
        wm == IF ~IsMountPoint(w, TmpImageDir)
              THEN Ok(zfsPoolVolumeMount(w, fs)) ELSE w
        wu == Hook(wm, <<"unpackImage", fp>>)
        wo == zfsPoolVolumeSet(wu, fs, "readonly", "on")
        wn == zfsPoolVolumeSet(wo, fs, "mountpoint", None)
        wx == IF IsMountPoint(wn, TmpImageDir)
              THEN Ok(zfsPoolVolumeUmount(wn, fs)) ELSE wn
        wp == zfsPoolVolumeSnapshotCreate(wx, fs, ReadOnly)
    IN  IF wu.err THEN ImageCleanup(wu, fp)
        ELSE IF wo.err THEN ImageCleanup(wo, fp)
        ELSE IF wn.err THEN ImageCleanup(wn, fp)
        ELSE IF wp.err THEN ImageCleanup(wp, fp)
        ELSE Ok(wp)

ImageCreate(w, fp) ==
    LET fs == ImageFs(fp)
        w0 == createImageDbPoolVolume(w, fp)
        wc == zfsPoolVolumeCreate(w0, fs)
        ws == zfsPoolVolumeSet(wc, fs, "mountpoint", TmpImageDir)
        wz == IF ws.err THEN ws ELSE ImageUnpack(ws, fp)
    IN  IF w0.err THEN w0
        ELSE IF zfsPoolVolumeExists(w0, FsPath(DeletedImageFs(fp)))
        THEN ImageResurrect(w0, fp)
        ELSE IF wc.err THEN Deferred(deleteImageDbPoolVolume(wc, fp), TRUE)
        ELSE IF wz.err THEN Deferred(ImageDelete(wz, fp), TRUE)
        ELSE Ok(wz)

\* ContainerCreateFromImage from the clone on
ContainerCloneImage(w, name, fp) ==
    LET wc == zfsPoolVolumeClone(w, ImageFs(fp), ReadOnly, ContainerFs(name),
                                 getContainerMountPoint(PoolName, name))
        wm == Hook(wc, <<"createContainerMountpoint", name>>)
        wh == IF wm.err THEN wm ELSE Hook(wm, <<"shiftRootfs", name>>)
        wt == IF wh.err THEN wh ELSE Hook(wh, <<"TemplateApply", name>>)
    IN  IF wc.err THEN wc
        ELSE IF wt.err THEN Deferred(ContainerDelete(wt, name), TRUE)
        ELSE Ok(wt)

\* the image part of ContainerCreateFromImage as the holder of the key runs
\* it: if !s.zfsPoolVolumeExists(fsImage) { imgerr = s.ImageCreate(fp) }
ContainerEnsureImage(w, fp) ==
    IF ~zfsPoolVolumeExists(w, FsPath(ImageFs(fp))) THEN ImageCreate(w, fp)
    ELSE Ok(w)

\* ContainerCreateFromImage when no other caller holds the image key
ContainerCreateFromImage(w, name, fp) ==
    LET wi == ContainerEnsureImage(w, fp) IN
    IF wi.err THEN wi ELSE ContainerCloneImage(wi, name, fp)

\* a delete that destroys the snapshot whatever its clones
SnapshotAlwaysDestroy(w, fs, snap) == zfsPoolVolumeSnapshotDestroy(w, fs, snap)

\* a delete that renames the snapshot whatever its clones
SnapshotAlwaysRename(w, fs, snap) ==
    zfsPoolVolumeSnapshotRename(DrawUuid(w), fs, snap, Copy(NewUuid(w)))

\* a removable snapshot is destroyed, any other renamed to copy-<uuid>
SnapshotDestroyOrRename(w, fs, snap) ==
    IF zfsPoolVolumeSnapshotRemovable(w, FsPath(fs), snap)
    THEN zfsPoolVolumeSnapshotDestroy(w, fs, snap)
    ELSE zfsPoolVolumeSnapshotRename(DrawUuid(w), fs, snap, Copy(NewUuid(w)))

\* no legacy <var>/snapshots/<c>/<s>.zfs file exists in a pool this driver
\* has made, so that removal is never attempted
SnapshotDeleteZfs(w, name, s) ==
    IF zfsPoolVolumeExists(w, Path(ContainerFs(name), Snapshot(s)))
    THEN SnapshotDestroyOrRename(w, ContainerFs(name), Snapshot(s))
    ELSE Ok(w)

\* ContainerSnapshotDelete, the mountpoint of the snapshot
SnapshotDeleteDir(w, name, s) ==
    IF ~w.err /\ sharedPathExists(w, SnapshotMountPoint(name, s))
    THEN osRemoveAll(w, SnapshotMountPoint(name, s))
    ELSE w

SnapshotDeleteLink(w, name) ==
    IF ~w.err /\ sharedPathExists(w, VarPath("snapshots", name))
    THEN osRemove(w, VarPath("snapshots", name))
    ELSE w

\* ContainerSnapshotDelete, the snapshot directory of the container once it
\* is empty, and the symlink to it
SnapshotDeleteParent(w, name) ==
    IF ~w.err /\ sharedPathIsEmpty(w, getSnapshotMountPoint(PoolName, name))
    THEN SnapshotDeleteLink(osRemove(w, getSnapshotMountPoint(PoolName, name)),
                            name)
    ELSE w

\* ContainerSnapshotDelete, the legacy <var>/snapshots/<name> directory
SnapshotDeleteLegacy(w, name) ==
    IF ~w.err /\ sharedPathIsEmpty(w, VarPath("snapshots", name))
    THEN osRemove(w, VarPath("snapshots", name))
    ELSE w

ContainerSnapshotDelete(w, name, s) ==
    SnapshotDeleteLegacy(
        SnapshotDeleteParent(
            SnapshotDeleteDir(SnapshotDeleteZfs(w, name, s), name, s), name),
        name)

ContainerSnapshotCreate(w, name, s) ==
    LET wc == zfsPoolVolumeSnapshotCreate(w, ContainerFs(name), Snapshot(s))
        wm == IF ~sharedPathExists(wc, SnapshotMountPoint(name, s))
              THEN osMkdirAll(wc, SnapshotMountPoint(name, s)) ELSE wc
        wl == IF ~sharedPathExists(wm, VarPath("snapshots", name))
              THEN osSymlink(wm, getSnapshotMountPoint(PoolName, VolumeName(name)),
                             VarPath("snapshots", name))
              ELSE wm
    IN  IF wc.err THEN wc
        ELSE IF wm.err THEN Deferred(ContainerSnapshotDelete(wm, name, s), TRUE)
        ELSE IF wl.err THEN Deferred(ContainerSnapshotDelete(wl, name, s), TRUE)
        ELSE Ok(wl)

\* container.Snapshots(): the user snapshots of the container, oldest first
Snapshots(w, name) ==
    LET user == SelectSeq(zfsPoolListSnapshots(w, ContainerFs(name)),
                          LAMBDA x : x[1] = "snapshot")
    IN  [i \in 1..Len(user) |-> user[i][2]]

\* shared.IsTrue(s.volume.Config["zfs.remove_snapshots"])
IsTrue(value) == value \in {"true", "1", "yes", "on"}

\* a pre-check that lets every snapshot through
ContainerCanRestoreAny(w, name, s, removeSnapshots) == Ok(w)

\* snaps[len(snaps)-1] of an empty list is a run-time panic
ContainerCanRestore(w, name, s, removeSnapshots) ==
    LET snaps == Snapshots(w, name) IN
    IF Len(snaps) = 0 THEN Err(w)
    ELSE IF snaps[Len(snaps)] # s
    THEN IF ~IsTrue(removeSnapshots) THEN Err(w) ELSE Ok(w)
    ELSE Ok(w)

\* a restore that deletes no snapshot
RestoreLoopNone(w, name, snaps, i, s) == Ok(w)

\* the snapshots the loop of ContainerRestore has left to look at are
\* snaps[2..i] (the loop ends at Go index 0 without looking at it);
\* snaps[i].Delete() is ContainerSnapshotDelete of that snapshot
RECURSIVE RestoreLoop(_, _, _, _, _)
RestoreLoop(w, name, snaps, i, s) ==
    IF i < 1 THEN Err(w)
    ELSE IF i = 1 THEN Ok(w)
    ELSE IF snaps[i] = s THEN Ok(w)
    ELSE LET wd == ContainerSnapshotDelete(w, name, snaps[i]) IN
         IF wd.err THEN wd ELSE RestoreLoop(wd, name, snaps, i - 1, s)

ContainerRestore(w, name, s) ==
    LET snaps == Snapshots(w, name)
        wl == RestoreLoop(w, name, snaps, Len(snaps), s)
    IN  IF wl.err THEN wl
        ELSE zfsPoolVolumeSnapshotRestore(wl, ContainerFs(name), Snapshot(s))

\* a rename that sets the mountpoint of the old name
ContainerRenameOldMountpoint(w, oldName, newName) ==
    LET wu == ContainerUmount(w, oldName)
        wr == zfsPoolVolumeRename(wu, ContainerFs(oldName), ContainerFs(newName))
    IN  IF wu.err THEN wu
        ELSE IF wr.err THEN wr
        ELSE zfsPoolVolumeSet(wr, ContainerFs(newName), "mountpoint",
                              getContainerMountPoint(PoolName, oldName))

\* ContainerRename once the dataset has its new name: the mountpoint
\* property, the unmount, the move of the mountpoint
RenameMountpoint(w, oldName, newName) ==
    LET ws == zfsPoolVolumeSet(w, ContainerFs(newName), "mountpoint",
                               getContainerMountPoint(PoolName, newName))
    IN  IF ws.err THEN ws
        ELSE LET wv == ContainerUmount(ws, newName) IN
             IF wv.err THEN wv
             ELSE Hook(wv, <<"renameContainerMountpoint", oldName, newName>>)

\* ContainerRename, the snapshot directory of the container
RenameSnapshotDir(w, oldName, newName) ==
    IF ~w.err /\ sharedPathExists(w, getSnapshotMountPoint(PoolName, oldName))
    THEN osRename(w, getSnapshotMountPoint(PoolName, oldName),
                  getSnapshotMountPoint(PoolName, newName))
    ELSE w

\* ContainerRename, the symlink of the old name
RenameOldLink(w, oldName) ==
    IF ~w.err /\ sharedPathExists(w, VarPath("snapshots", oldName))
    THEN osRemove(w, VarPath("snapshots", oldName))
    ELSE w

\* ContainerRename, the symlink of the new name: made when the path exists
RenameNewLink(w, newName) ==
    IF ~w.err /\ sharedPathExists(w, VarPath("snapshots", newName))
    THEN osSymlink(w, getSnapshotMountPoint(PoolName, newName),
                   VarPath("snapshots", newName))
    ELSE w

\* the revert calls ContainerRename(container, oldName) with the instance
\* it was given, whose Name() is still the old name
RECURSIVE ContainerRename(_, _, _)
ContainerRename(w, oldName, newName) ==
    LET wu == ContainerUmount(w, oldName) IN
    IF wu.err THEN wu
    ELSE LET wr == zfsPoolVolumeRename(wu, ContainerFs(oldName),
                                       ContainerFs(newName))
         IN  IF wr.err THEN wr
             ELSE LET wn ==
                          RenameNewLink(
                            RenameOldLink(
                              RenameSnapshotDir(
                                RenameMountpoint(wr, oldName, newName),
                                oldName, newName),
                              oldName),
                            newName)
                  IN  IF wn.err
                      THEN Deferred(ContainerRename(wn, oldName, oldName), TRUE)
                      ELSE Ok(wn)

\* the branch of ContainerCopy for a source without a ZFS dataset
ContainerCopyRsync(w, name, src) ==
    LET wc == ContainerCreate(w, name)
        wr == Hook(wc, <<"storageRsyncCopy", src, name>>)
        wt == IF wr.err THEN wr ELSE Hook(wr, <<"TemplateApply", name>>)
    IN  IF wc.err THEN wc
        ELSE IF wt.err THEN Deferred(ContainerDelete(wt, name), TRUE)
        ELSE Ok(wt)

\* the deferred destroy of the copy-<uuid> snapshot
CopyUndoSnapshot(x, live, source, snap) ==
    IF live THEN zfsPoolVolumeSnapshotDestroy(x, source, snap) ELSE x

\* deferred functions that run in the order they were registered in
CopyUndoSnapshotFirst(x, live, source, snap, target) ==
    zfsPoolVolumeDestroy(CopyUndoSnapshot(x, live, source, snap), FsPath(target))

\* the deferred destroy of the target runs before that of the snapshot
CopyUndoClone(x, live, source, snap, target) ==
    CopyUndoSnapshot(zfsPoolVolumeDestroy(x, FsPath(target)), live, source, snap)

\* s = "" copies the container itself (through a copy-<uuid> snapshot),
\* any other s copies its snapshot s
ContainerCopy(w, name, src, s) ==
    LET target == ContainerFs(name)
        source == ContainerFs(src)
        live == s = ""
        found == IF live THEN zfsPoolVolumeExists(w, FsPath(source))
                 ELSE zfsPoolVolumeExists(w, Path(source, Snapshot(s)))
        snap == IF live THEN Copy(NewUuid(w)) ELSE Snapshot(s)
        w0 == IF live THEN zfsPoolVolumeSnapshotCreate(DrawUuid(w), source, snap)
              ELSE w
        wc == zfsPoolVolumeClone(w0, source, snap, target,
                                 getContainerMountPoint(PoolName, name))
        wm == ContainerMount(wc, name)
        wp == Hook(wm, <<"createContainerMountpoint", name>>)
        wt == Hook(wp, <<"TemplateApply", name>>)
        UndoSnapshot(x) == CopyUndoSnapshot(x, live, source, snap)
        UndoClone(x) == CopyUndoClone(x, live, source, snap, target)
        UndoMount(x) == IF wm.didWork THEN ContainerUmount(x, name) ELSE x
        UndoMountpoint(x) == Hook(x, <<"deleteContainerMountpoint", name>>)
    IN  IF ~found THEN ContainerCopyRsync(w, name, src)
        ELSE IF live /\ w0.err THEN w0
        ELSE IF wc.err THEN Deferred(UndoSnapshot(wc), TRUE)
        ELSE IF wm.err THEN Deferred(UndoClone(wm), TRUE)
        ELSE IF wp.err THEN Deferred(UndoClone(UndoMount(wp)), TRUE)
        ELSE IF wt.err
        THEN Deferred(UndoClone(UndoMount(UndoMountpoint(wt))), TRUE)
        ELSE Deferred(UndoMount(wt), FALSE)

----------------------------------------------------------------------------
(* The driver called by one caller at a time: every action is one call of  *)
(* a driver method, run to its return under some fault plan.               *)

\* the fault plans left to a call: which of its commands fail
FaultPlans ==
    {f \in SUBSET (1..MaxSteps) : Cardinality(f) <= MaxFaults - faultsUsed}

\* what the pool held about a container and an image before a call
ContainerFacts(name) ==
    LET full == Full(ContainerFs(name)) IN
    IF ~Exists(datasets, full)
    THEN [existed |-> FALSE, removable |-> TRUE, clones |-> {}, origin |-> NoOrigin,
          snaps |-> <<>>, cloned |-> {}]
    ELSE [existed |-> TRUE,
          snaps |-> datasets[full].snaps,
          cloned |-> {x \in SeqToSet(datasets[full].snaps) :
                         Clones(datasets, full, x) # {}},
          removable |-> \A i \in 1..Len(datasets[full].snaps) :
                            Clones(datasets, full, datasets[full].snaps[i]) = {},
          clones |-> {<<d, datasets[d].origin.snap>> :
                         d \in {x \in DOMAIN datasets : datasets[x].origin.fs = full}},
          origin |-> datasets[full].origin]

ImageFacts(fp) ==
    [existed |-> Exists(datasets, Full(ImageFs(fp))),
     buried |-> Exists(datasets, Full(DeletedImageFs(fp))),
     registered |-> fp \in imageDb]

\* the world of a call that starts now
Call(fails) == [World(fails) EXCEPT !.log = <<>>]

\* every planned fault was hit by a command the call ran
Return(w, op, name, arg, arg2) ==
    /\ opsDone < MaxOps
    /\ opsDone' = opsDone + 1
    /\ \A i \in w.fails : i <= w.step
    /\ faultsUsed' = faultsUsed + Cardinality(w.fails)
    /\ w.uu <= MaxUuid
    /\ datasets' = w.ds
    /\ imageDb' = w.db
    /\ uuidNext' = w.uu
    /\ log' = w.log
    /\ files' = w.files
    /\ poolState' = w.pool
    /\ prev' = IF before = NoHistory THEN prev ELSE last
    /\ before' = IF before = NoHistory THEN before
                 ELSE [last |-> Listing(datasets), prev |-> before.last]
    /\ last' = [op |-> op, name |-> name, arg |-> arg, arg2 |-> arg2,
                err |-> w.err, faults |-> Cardinality(w.fails),
                graveOk |-> w.graveOk,
                container |-> ContainerFacts(name), image |-> ImageFacts(arg),
                tree |-> getSnapshotMountPoint(PoolName, name) \in files.dirs,
                uuid |-> UUIDS[uuidNext + 1]]
    /\ UNCHANGED <<dataset, mig, lxdStorageMapLock, lxdStorageOngoingOperationMap,
                   channels, pc, call, waitChannel, made, ourMount, imgerr,
                   invoked, ret>>

HasContainer(name) == Exists(datasets, Full(ContainerFs(name)))
HasSnapshot(name, s) == SnapExists(datasets, Full(ContainerFs(name)), Snapshot(s))
HasImage(fp) == Exists(datasets, Full(ImageFs(fp)))

DoContainerCreate(name) ==
    /\ ~HasContainer(name)
    /\ \E fails \in FaultPlans :
         Return(ContainerCreate(Call(fails), name), "ContainerCreate", name, "", "")

DoContainerCreateFromImage(name, fp) ==
    /\ ~HasContainer(name)
    /\ \E fails \in FaultPlans :
         Return(ContainerCreateFromImage(Call(fails), name, fp),
                "ContainerCreateFromImage", name, fp, "")

DoContainerDelete(name) ==
    /\ HasContainer(name)
    /\ \E fails \in FaultPlans :
         Return(ContainerDelete(Call(fails), name), "ContainerDelete", name, "", "")

DoContainerCopy(name, src, s) ==
    /\ ~HasContainer(name)
    /\ HasContainer(src)
    /\ s # "" => HasSnapshot(src, s)
    /\ \E fails \in FaultPlans :
         Return(ContainerCopy(Call(fails), name, src, s), "ContainerCopy", name, src, s)

DoContainerRename(name, newName) ==
    /\ HasContainer(name)
    /\ ~HasContainer(newName)
    /\ \E fails \in FaultPlans :
         Return(ContainerRename(Call(fails), name, newName),
                "ContainerRename", name, newName, "")

DoContainerSnapshotCreate(name, s) ==
    /\ HasContainer(name)
    /\ ~HasSnapshot(name, s)
    /\ \E fails \in FaultPlans :
         Return(ContainerSnapshotCreate(Call(fails), name, s),
                "ContainerSnapshotCreate", name, s, "")

DoContainerSnapshotDelete(name, s) ==
    /\ HasSnapshot(name, s)
    /\ \E fails \in FaultPlans :
         Return(ContainerSnapshotDelete(Call(fails), name, s),
                "ContainerSnapshotDelete", name, s, "")

DoContainerRestore(name, s) ==
    /\ HasSnapshot(name, s)
    /\ \E fails \in FaultPlans :
         Return(ContainerRestore(Call(fails), name, s), "ContainerRestore", name, s, "")

DoContainerCanRestore(name, s, removeSnapshots) ==
    /\ HasSnapshot(name, s)
    /\ \E fails \in FaultPlans :
         Return(ContainerCanRestore(Call(fails), name, s, removeSnapshots),
                "ContainerCanRestore", name, s, removeSnapshots)

DoContainerMount(name) ==
    /\ HasContainer(name)
    /\ \E fails \in FaultPlans :
         Return(ContainerMount(Call(fails), name), "ContainerMount", name, "", "")

DoContainerUmount(name) ==
    /\ HasContainer(name)
    /\ \E fails \in FaultPlans :
         Return(ContainerUmount(Call(fails), name), "ContainerUmount", name, "", "")

DoImageCreate(fp) ==
    /\ ~HasImage(fp)
    /\ \E fails \in FaultPlans :
         Return(ImageCreate(Call(fails), fp), "ImageCreate", "", fp, "")

DoImageDelete(fp) ==
    /\ HasImage(fp) \/ fp \in imageDb
    /\ \E fails \in FaultPlans :
         Return(ImageDelete(Call(fails), fp), "ImageDelete", "", fp, "")

\* the source the driver was configured with: none or the pool's name
\* (dataset unset), or the path of a dataset inside another pool
Datasets == {<<>>, <<"tank", "lxd">>}

\* what StoragePoolCreate leaves: the schema roots, mountpoint none
PoolRoots ==
    {onDiskPoolName} \cup
    {onDiskPoolName \o <<r>> : r \in {"containers", "images", "custom", "deleted"}}

Init ==
    /\ dataset \in Datasets
    /\ datasets = [d \in PoolRoots |-> NewFs(NoOrigin, None, FALSE)]
    /\ imageDb = {}
    /\ uuidNext = 0
    /\ log = <<>>
    /\ last = NoCall
    /\ faultsUsed = 0
    /\ opsDone = 0
    /\ files = NoFiles
    /\ prev = NoCall
    /\ before = NoHistory
    /\ mig = NoMigration
    /\ poolState = NoPool
    /\ lxdStorageMapLock = NoThread
    /\ lxdStorageOngoingOperationMap = EmptyMap
    /\ channels = <<>>
    /\ pc = [t \in Threads |-> "done"]
    /\ call = [t \in Threads |-> NoCall]
    /\ waitChannel = [t \in Threads |-> NoChannel]
    /\ made = [t \in Threads |-> NoChannel]
    /\ ourMount = [t \in Threads |-> FALSE]
    /\ imgerr = [t \in Threads |-> FALSE]
    /\ invoked = [t \in Threads |-> 0]
    /\ ret = [t \in Threads |-> NoRet]

Next ==
    \/ \E name \in ContainerNames : DoContainerCreate(name)
    \/ \E name \in ContainerNames, fp \in Fingerprints :
          DoContainerCreateFromImage(name, fp)
    \/ \E name \in ContainerNames : DoContainerDelete(name)
    \/ \E name, src \in ContainerNames, s \in SnapNames \cup {""} :
          DoContainerCopy(name, src, s)
    \/ \E name, newName \in ContainerNames : DoContainerRename(name, newName)
    \/ \E name \in ContainerNames, s \in SnapNames : DoContainerSnapshotCreate(name, s)
    \/ \E name \in ContainerNames, s \in SnapNames : DoContainerSnapshotDelete(name, s)
    \/ \E name \in ContainerNames : DoContainerMount(name)
    \/ \E name \in ContainerNames : DoContainerUmount(name)
    \/ \E fp \in Fingerprints : DoImageCreate(fp)
    \/ \E fp \in Fingerprints : DoImageDelete(fp)

Spec == Init /\ [][Next]_vars

----------------------------------------------------------------------------
(* The snapshots of one container: container c1 has been created, is       *)
(* snapshotted, copied to c2 and restored.  This specification keeps the   *)
(* listings before the last two calls.                                     *)

RestoreSnapNames == {"s1", "s2", "s3"}
RemoveSnapshotsValues == {"", "true"}

NoCallers ==
    /\ lxdStorageMapLock = NoThread
    /\ lxdStorageOngoingOperationMap = EmptyMap
    /\ channels = <<>>
    /\ pc = [t \in Threads |-> "done"]
    /\ call = [t \in Threads |-> NoCall]
    /\ waitChannel = [t \in Threads |-> NoChannel]
    /\ made = [t \in Threads |-> NoChannel]
    /\ ourMount = [t \in Threads |-> FALSE]
    /\ imgerr = [t \in Threads |-> FALSE]
    /\ invoked = [t \in Threads |-> 0]
    /\ ret = [t \in Threads |-> NoRet]

\* the pool ContainerCreate(name) leaves when no command fails
PoolWithContainer(name) ==
    [d \in PoolRoots \cup {Full(ContainerFs(name))} |->
        IF d \in PoolRoots THEN NewFs(NoOrigin, None, FALSE)
        ELSE NewFs(NoOrigin, getContainerMountPoint(PoolName, name), TRUE)]

InitSnapshot ==
    /\ dataset \in Datasets
    /\ datasets = PoolWithContainer("c1")
    /\ imageDb = {}
    /\ uuidNext = 0
    /\ log = <<>>
    /\ last = NoCall
    /\ faultsUsed = 0
    /\ opsDone = 0
    /\ files = NoFiles
    /\ prev = NoCall
    /\ before = [last |-> Listing(datasets), prev |-> Listing(datasets)]
    /\ mig = NoMigration
    /\ poolState = NoPool
    /\ NoCallers

NextSnapshot ==
    \/ \E s \in RestoreSnapNames : DoContainerSnapshotCreate("c1", s)
    \/ \E s \in RestoreSnapNames : DoContainerSnapshotDelete("c1", s)
    \/ \E s \in RestoreSnapNames \cup {""} : DoContainerCopy("c2", "c1", s)
    \/ DoContainerDelete("c2")
    \/ \E s \in RestoreSnapNames : DoContainerRestore("c1", s)
    \/ \E s \in RestoreSnapNames, r \in RemoveSnapshotsValues :
          DoContainerCanRestore("c1", s, r)

SpecSnapshot == InitSnapshot /\ [][NextSnapshot]_vars

----------------------------------------------------------------------------
(* Calls that undo one another: containers are created from an image,      *)
(* snapshotted, renamed and deleted, and the listings before the last two  *)
(* calls are kept.                                                         *)

InitHistory ==
    /\ dataset \in Datasets
    /\ datasets = [d \in PoolRoots |-> NewFs(NoOrigin, None, FALSE)]
    /\ imageDb = {}
    /\ uuidNext = 0
    /\ log = <<>>
    /\ last = NoCall
    /\ faultsUsed = 0
    /\ opsDone = 0
    /\ files = NoFiles
    /\ prev = NoCall
    /\ before = [last |-> Listing(datasets), prev |-> Listing(datasets)]
    /\ mig = NoMigration
    /\ poolState = NoPool
    /\ NoCallers

NextHistory ==
    \/ \E name \in ContainerNames, fp \in Fingerprints :
          DoContainerCreateFromImage(name, fp)
    \/ \E name \in ContainerNames : DoContainerDelete(name)
    \/ \E name, newName \in ContainerNames : DoContainerRename(name, newName)
    \/ \E name \in ContainerNames, s \in SnapNames : DoContainerSnapshotCreate(name, s)
    \/ \E name, src \in ContainerNames, s \in SnapNames \cup {""} :
          DoContainerCopy(name, src, s)
    \/ \E name \in ContainerNames : DoContainerMount(name)
    \/ \E name \in ContainerNames : DoContainerUmount(name)
    \/ \E fp \in Fingerprints : DoImageDelete(fp)

SpecHistory == InitHistory /\ [][NextHistory]_vars

----------------------------------------------------------------------------
(* ContainerCreateFromImage called by several callers at once, each for    *)
(* its own container and all for the same image.                           *)
(* pc: start -> locked1 -> (wait | image -> [create ->] relock ->          *)
(*     locked2 -> imgret) -> clone -> done                                 *)

ThreadContainers == <<"c1", "c2", "c3", "c4", "c5">>

CreateCalls ==
    [t \in Threads |-> [op |-> "create", name |-> ThreadContainers[t], fp |-> "f1"]]

IsCreateCall(t) == call[t].op = "create"

ImageLock1(t) == IsCreateCall(t) /\ Lock(t, "start", "locked1")

ImageEnter(t) == IsCreateCall(t) /\ EnterSection(t, "locked1", "wait", "image")

\* the waiter goes on to the clone once the channel is closed
ImageWaiterProceed(t) ==
    /\ IsCreateCall(t)
    /\ pc[t] = "wait"
    /\ Received(t)
    /\ Goto(t, "clone")
    /\ UNCHANGED <<dataset, datasets, imageDb, uuidNext, log, last, faultsUsed,
                   opsDone, files, prev, before, mig, poolState, lxdStorageMapLock, lxdStorageOngoingOperationMap,
                   channels, call, waitChannel, made, ourMount, imgerr,
                   invoked, ret>>

\* if !s.zfsPoolVolumeExists(fsImage)
ImageCheck(t) ==
    /\ IsCreateCall(t)
    /\ pc[t] = "image"
    /\ IF ~zfsPoolVolumeExists(World({}), FsPath(ImageFs(call[t].fp)))
       THEN Goto(t, "create")
       ELSE Goto(t, "relock")
    /\ UNCHANGED <<dataset, datasets, imageDb, uuidNext, log, last, faultsUsed,
                   opsDone, files, prev, before, mig, poolState, lxdStorageMapLock, lxdStorageOngoingOperationMap,
                   channels, call, waitChannel, made, ourMount, imgerr,
                   invoked, ret>>

\* what a part of a call run under a fault plan leaves behind
Commit(w) ==
    /\ \A i \in w.fails : i <= w.step
    /\ faultsUsed' = faultsUsed + Cardinality(w.fails)
    /\ datasets' = w.ds
    /\ imageDb' = w.db
    /\ uuidNext' = w.uu
    /\ log' = w.log
    /\ files' = w.files

\* imgerr = s.ImageCreate(fingerprint)
ImageCreateStep(t) ==
    /\ IsCreateCall(t)
    /\ pc[t] = "create"
    /\ \E fails \in FaultPlans :
         \E w \in {ImageCreate(World(fails), call[t].fp)} :
         /\ Commit(w)
         /\ imgerr' = [imgerr EXCEPT ![t] = w.err]
    /\ invoked' = [invoked EXCEPT ![t] = @ + 1]
    /\ Goto(t, "relock")
    /\ UNCHANGED <<dataset, last, opsDone, prev, before, mig, poolState, lxdStorageMapLock,
                   lxdStorageOngoingOperationMap, channels, call, waitChannel,
                   made, ourMount, ret>>

ImageLock2(t) == IsCreateCall(t) /\ Lock(t, "relock", "locked2")

ImageLeave(t) == IsCreateCall(t) /\ LeaveSection(t, "locked2", "imgret")

\* if imgerr != nil { return imgerr }
ImageLeaderProceed(t) ==
    /\ IsCreateCall(t)
    /\ pc[t] = "imgret"
    /\ IF imgerr[t]
       THEN /\ ret' = [ret EXCEPT ![t] = [didWork |-> FALSE, err |-> TRUE]]
            /\ Goto(t, "done")
       ELSE /\ Goto(t, "clone")
            /\ UNCHANGED ret
    /\ UNCHANGED <<dataset, datasets, imageDb, uuidNext, log, last, faultsUsed,
                   opsDone, files, prev, before, mig, poolState, lxdStorageMapLock, lxdStorageOngoingOperationMap,
                   channels, call, waitChannel, made, ourMount, imgerr, invoked>>

\* the clone and what follows it, to the return of the call
CloneStep(t) ==
    /\ IsCreateCall(t)
    /\ pc[t] = "clone"
    /\ \E fails \in FaultPlans :
         \E w \in {ContainerCloneImage(World(fails), call[t].name, call[t].fp)} :
         /\ Commit(w)
         /\ ret' = [ret EXCEPT ![t] = [didWork |-> FALSE, err |-> w.err]]
    /\ Goto(t, "done")
    /\ UNCHANGED <<dataset, last, opsDone, prev, before, mig, poolState, lxdStorageMapLock,
                   lxdStorageOngoingOperationMap, channels, call, waitChannel,
                   made, ourMount, imgerr, invoked>>

InitImage ==
    /\ InitCoord
    /\ datasets = [d \in Roots |-> NewFs(NoOrigin, None, FALSE)]
    /\ call = CreateCalls

NextImage ==
    \E t \in Threads :
        \/ ImageLock1(t)
        \/ ImageEnter(t)
        \/ ImageWaiterProceed(t)
        \/ ImageCheck(t)
        \/ ImageCreateStep(t)
        \/ ImageLock2(t)
        \/ ImageLeave(t)
        \/ ImageLeaderProceed(t)
        \/ CloneStep(t)

SpecImage == InitImage /\ [][NextImage]_vars

----------------------------------------------------------------------------
(* Claims about concurrent creation from an image (SpecImage).             *)

Count(entries, e) == Cardinality({i \in 1..Len(entries) : entries[i] = e})
InImageSection(t) == pc[t] \in {"image", "create", "relock", "locked2"}
ImageCreates == Cardinality({t \in Threads : invoked[t] > 0})
NoImageError == \A t \in Threads : ~imgerr[t]

\* C5: when ContainerCreateFromImage is called concurrently for containers
\* c1, c2, ... with the same fingerprint on a pool that never held the
\* image, at most one caller at a time is between its image test and its
\* release of the key; as long as no ImageCreate has returned an error,
\* ImageCreate has been invoked at most once and zfs create images/<fp> has
\* run at most once; and once all calls have returned, exactly once each,
\* with exactly one zfs clone invocation per container.
C5_ImageCreatedOnce ==
    /\ \A t, u \in Threads :
          (t # u /\ InImageSection(t)) => ~InImageSection(u)
    /\ \A t \in Threads : invoked[t] <= 1
    /\ NoImageError =>
          /\ ImageCreates <= 1
          /\ Count(log, <<"create", ImageFs("f1")>>) <= 1
          /\ \A t \in Threads :
                Count(log, <<"clone", ContainerFs(call[t].name)>>) <= 1
          /\ (\A t \in Threads : Returned(t)) =>
                /\ ImageCreates = 1
                /\ Count(log, <<"create", ImageFs("f1")>>) = 1
                /\ \A t \in Threads :
                      Count(log, <<"clone", ContainerFs(call[t].name)>>) = 1

\* all calls have returned without error: one created the image, another
\* waited for it, and every container is a clone of images/f1@readonly
C5_Witness ==
    /\ \A t \in Threads : Returned(t) /\ ~ret[t].err
    /\ \E t, u \in Threads : invoked[t] = 1 /\ waitChannel[u] = made[t]
    /\ \A t \in Threads :
          /\ Exists(datasets, Full(ContainerFs(call[t].name)))
          /\ datasets[Full(ContainerFs(call[t].name))].origin
                = Path(Full(ImageFs("f1")), ReadOnly)

----------------------------------------------------------------------------
(* Claims about the calls of one caller (specification Spec).              *)

UnderDeleted(d) == IsPrefix(onDiskPoolName \o <<"deleted">>, d)
Grave(u) == Full(<<"deleted", "containers", u>>)
LastContainer == Full(ContainerFs(last.name))
LastGrave == Grave(last.uuid)
LastDestroyed == ~Exists(datasets, LastContainer) /\ ~Exists(datasets, LastGrave)
LastBuried == ~Exists(datasets, LastContainer) /\ Exists(datasets, LastGrave)

\* C6: after ContainerDelete of an existing containers/<n>, the dataset is
\* gone from the pool only if none of its snapshots had a clone, and it
\* sits under deleted/containers/<uuid> only if one had; in the graveyard
\* it has mountpoint none and the clones have it as their origin under its
\* new name.  A call that returned no error has destroyed the dataset when
\* no snapshot had a clone and has moved it otherwise, and a call in which
\* no command failed has moved a dataset one of whose snapshots had a clone.
C6_DestroyOrBury ==
    (last.op = "ContainerDelete" /\ last.container.existed) =>
        /\ LastDestroyed => last.container.removable
        /\ LastBuried =>
              /\ ~last.container.removable
              /\ datasets[LastGrave].mountpoint = None
              /\ \A c \in last.container.clones :
                    /\ Exists(datasets, c[1])
                    /\ datasets[c[1]].origin = Path(LastGrave, c[2])
        /\ ~last.err =>
              IF last.container.removable THEN LastDestroyed ELSE LastBuried
        /\ (last.faults = 0 /\ ~last.container.removable) =>
              ~last.err /\ LastBuried

\* ContainerDelete has moved a container with a cloned snapshot to the
\* graveyard and its clone still points at it
C6_Witness ==
    /\ last.op = "ContainerDelete"
    /\ ~last.err
    /\ last.container.existed
    /\ ~last.container.removable
    /\ last.container.clones # {}
    /\ LastBuried
    /\ \A c \in last.container.clones : datasets[c[1]].origin.fs = LastGrave

\* the graveyard container the deleted container was cloned from
LastOrigin == last.container.origin
LastOriginBuried ==
    /\ LastOrigin # NoOrigin
    /\ IsPrefix(Full(<<"deleted", "containers">>), LastOrigin.fs)
    /\ LastOrigin.snap[1] = "snapshot"

\* C7 as stated: when ContainerDelete returns without error for a
\* container that was the last clone of a user snapshot of a container
\* sitting in the graveyard, the graveyard snapshot and the graveyard
\* dataset have been destroyed.
C7_AsStated ==
    ( /\ last.op = "ContainerDelete"
      /\ ~last.err
      /\ last.container.existed
      /\ LastDestroyed
      /\ LastOriginBuried
      /\ \A d \in DOMAIN datasets : datasets[d].origin.fs # LastOrigin.fs )
    => ~Exists(datasets, LastOrigin.fs)

\* ContainerDelete of the last clone has returned without error and the
\* graveyard container it was cloned from is still there, with its snapshot
C7_Divergence ==
    /\ last.op = "ContainerDelete"
    /\ ~last.err
    /\ last.faults = 0
    /\ LastDestroyed
    /\ LastOriginBuried
    /\ \A d \in DOMAIN datasets : datasets[d].origin.fs # LastOrigin.fs
    /\ SnapExists(datasets, LastOrigin.fs, LastOrigin.snap)

\* C8: every dataset under deleted/ has mountpoint none, in the state every
\* call returns in and after every command a call has run.
C8_DeletedMountpointNone ==
    /\ DeletedMountpointNone(datasets)
    /\ last.op # "none" => last.graveOk

\* ContainerDelete or ImageDelete has just moved a dataset to the
\* graveyard, where it has mountpoint none
C8_Witness ==
    /\ last.op \in {"ContainerDelete", "ImageDelete"}
    /\ ~last.err
    /\ \E d \in DOMAIN datasets :
          /\ UnderDeleted(d)
          /\ Len(d) = Len(onDiskPoolName) + 3
          /\ datasets[d].mountpoint = None
          /\ IF last.op = "ContainerDelete" THEN d = LastGrave
             ELSE d = Full(DeletedImageFs(last.arg))

\* the mountpoint the driver computes for a dataset of the pool
Canonical(d) ==
    LET rel == TrimPrefix(d, onDiskPoolName) IN
    IF rel[1] = "containers" THEN getContainerMountPoint(PoolName, rel[2])
    ELSE getImageMountPoint(PoolName, rel[2])

Owned(d) ==
    /\ Len(d) = Len(onDiskPoolName) + 2
    /\ d[Len(onDiskPoolName) + 1] \in {"containers", "images", "custom"}

\* C9 as stated: when a call has returned, every container, image or custom
\* volume dataset outside deleted/ has the canonical mountpoint of its name
\* or none.
C9_AsStated ==
    \A d \in DOMAIN datasets :
        Owned(d) => datasets[d].mountpoint \in {Canonical(d), None}

\* ContainerRename has returned an error after its zfs rename and the
\* dataset sits under the new name with the mountpoint of the old one
C9_Divergence ==
    /\ last.op = "ContainerRename"
    /\ last.err
    /\ ~Exists(datasets, LastContainer)
    /\ Exists(datasets, Full(ContainerFs(last.arg)))
    /\ datasets[Full(ContainerFs(last.arg))].mountpoint
          = getContainerMountPoint(PoolName, last.name)

\* C10 as stated: when ImageCreate returns without error on a pool that
\* held deleted/images/<fp>, images/<fp> exists with its readonly snapshot,
\* deleted/images/<fp> does not, the catalog holds the image's record and
\* the unpacker was not run.
C10_AsStated ==
    (last.op = "ImageCreate" /\ ~last.err /\ last.image.buried) =>
        /\ SnapExists(datasets, Full(ImageFs(last.arg)), ReadOnly)
        /\ ~Exists(datasets, Full(DeletedImageFs(last.arg)))
        /\ last.arg \in imageDb
        /\ Count(log, <<"unpackImage", last.arg>>) = 0

\* ImageCreate has returned without error, no command having failed, on a
\* pool that held deleted/images/<fp>: the image is back in the graveyard
\* and the catalog has no record of it
C10_Divergence ==
    /\ last.op = "ImageCreate"
    /\ ~last.err
    /\ last.faults = 0
    /\ last.image.buried
    /\ ~Exists(datasets, Full(ImageFs(last.arg)))
    /\ Exists(datasets, Full(DeletedImageFs(last.arg)))
    /\ last.arg \notin imageDb

----------------------------------------------------------------------------
(* Claims about snapshots and restore (specification SpecSnapshot).        *)

\* the user snapshot names of a zfs snapshot list, in its order
UserSnaps(z) ==
    LET user == SelectSeq(z, LAMBDA x : x[1] = "snapshot")
    IN  [i \in 1..Len(user) |-> user[i][2]]

Index(seq, x) == CHOOSE i \in 1..Len(seq) : seq[i] = x
SnapsBefore == last.container.snaps
SnapsAfter == datasets[LastContainer].snaps
\* every zfs snapshot of the container made after snapshot-<s> was a user
\* snapshot without a clone when the call started
NewerAllRemovable(s) ==
    \A i \in (Index(SnapsBefore, Snapshot(s)) + 1)..Len(SnapsBefore) :
        /\ SnapsBefore[i][1] = "snapshot"
        /\ SnapsBefore[i] \notin last.container.cloned

\* C11: ContainerRestore of a container to its user snapshot at index k
\* (oldest first) never touches the snapshots up to k; when it returns
\* without error the user snapshots left are exactly those up to k and no
\* zfs snapshot newer than the target remains, none of them renamed; and it
\* does return without error when no command fails and every newer snapshot
\* is a user snapshot without clones.
C11_RestoreDestroysNewer ==
    last.op = "ContainerRestore" =>
        LET b == UserSnaps(SnapsBefore)
            a == UserSnaps(SnapsAfter)
            k == Index(b, last.arg)
            pos == Index(SnapsBefore, Snapshot(last.arg))
        IN  /\ Len(a) >= k
            /\ SubSeq(a, 1, k) = SubSeq(b, 1, k)
            /\ SubSeq(SnapsAfter, 1, pos) = SubSeq(SnapsBefore, 1, pos)
            /\ ~last.err =>
                  /\ a = SubSeq(b, 1, k)
                  /\ SnapsAfter = SubSeq(SnapsBefore, 1, pos)
            /\ (last.faults = 0 /\ NewerAllRemovable(last.arg)) => ~last.err

\* a container with three snapshots has been restored to the first: the two
\* newer ones are gone
C11_Witness ==
    /\ last.op = "ContainerRestore"
    /\ ~last.err
    /\ Len(UserSnaps(SnapsBefore)) = 3
    /\ Index(UserSnaps(SnapsBefore), last.arg) = 1
    /\ UserSnaps(SnapsAfter) = <<last.arg>>

\* C12: ContainerCanRestore returns an error exactly when the chosen
\* snapshot is not the most recent user snapshot of the container and
\* zfs.remove_snapshots is not true, and changes nothing in the pool.
C12_CanRestore ==
    last.op = "ContainerCanRestore" =>
        LET b == UserSnaps(SnapsBefore) IN
        /\ last.err <=> (b[Len(b)] # last.arg /\ last.arg2 # "true")
        /\ Listing(datasets) = before.last

\* the pre-check has refused an older snapshot, zfs.remove_snapshots unset
C12_Witness ==
    /\ last.op = "ContainerCanRestore"
    /\ last.err
    /\ last.arg2 = ""
    /\ Len(UserSnaps(SnapsBefore)) >= 2
    /\ UserSnaps(SnapsBefore)[1] = last.arg

\* every clone in the pool has an origin snapshot that exists
ValidOrigins ==
    \A d \in DOMAIN datasets :
        datasets[d].origin # NoOrigin =>
            SnapExists(datasets, datasets[d].origin.fs, datasets[d].origin.snap)

\* C13: every clone in the pool always has an existing origin.  When
\* ContainerSnapshotDelete of an existing containers/<n>@snapshot-<s>
\* returns without error, no snapshot-<s> is left on the container; a
\* snapshot without clones is gone from the snapshot list, and one with
\* clones is still in its place under the name copy-<uuid>, which is now the
\* origin of each of its clones.  The call returns without error when no
\* command fails.
C13_SnapshotDelete ==
    /\ ValidOrigins
    /\ (last.op = "ContainerSnapshotDelete" /\ Snapshot(last.arg) \in SeqToSet(SnapsBefore)) =>
          LET snap == Snapshot(last.arg)
              pos == Index(SnapsBefore, snap)
          IN  /\ last.faults = 0 => ~last.err
              /\ ~last.err =>
                    /\ snap \notin SeqToSet(SnapsAfter)
                    /\ IF snap \in last.container.cloned
                       THEN /\ SnapsAfter = [SnapsBefore EXCEPT ![pos] = Copy(last.uuid)]
                            /\ \A c \in last.container.clones :
                                  c[2] = snap =>
                                     datasets[c[1]].origin
                                        = Path(LastContainer, Copy(last.uuid))
                       ELSE SnapsAfter = RemoveSnap(SnapsBefore, snap)

\* ContainerSnapshotDelete has renamed a snapshot that has a clone, and the
\* clone follows it
C13_Witness ==
    /\ last.op = "ContainerSnapshotDelete"
    /\ ~last.err
    /\ Snapshot(last.arg) \in last.container.cloned
    /\ Copy(last.uuid) \in SeqToSet(SnapsAfter)
    /\ \E d \in DOMAIN datasets :
          datasets[d].origin = Path(LastContainer, Copy(last.uuid))

\* the last two calls were ContainerSnapshotCreate and
\* ContainerSnapshotDelete of the same snapshot, both without error
CreatedThenDeleted ==
    /\ prev.op = "ContainerSnapshotCreate"
    /\ last.op = "ContainerSnapshotDelete"
    /\ prev.name = last.name
    /\ prev.arg = last.arg
    /\ ~prev.err
    /\ ~last.err

\* C15: when ContainerSnapshotCreate and then ContainerSnapshotDelete of the
\* same snapshot have both returned without error, the datasets of the pool
\* and the snapshots of each, in order, are those before the two calls.
C15_CreateDeleteNoOp ==
    CreatedThenDeleted =>
        \A d \in DOMAIN datasets \cup DOMAIN before.prev :
            /\ d \in DOMAIN datasets
            /\ d \in DOMAIN before.prev
            /\ datasets[d].snaps = before.prev[d].snaps

\* a snapshot was created next to an older one and deleted again
C15_Witness ==
    /\ CreatedThenDeleted
    /\ Len(SnapsAfter) >= 1
    /\ Snapshot(last.arg) \notin SeqToSet(SnapsAfter)
    /\ Listing(datasets) = before.prev

----------------------------------------------------------------------------
(* Claims about calls that undo one another (specification SpecHistory).   *)

\* the last two calls were ContainerCreateFromImage and ContainerDelete of
\* the same container, both without error
CreatedFromImageThenDeleted ==
    /\ prev.op = "ContainerCreateFromImage"
    /\ last.op = "ContainerDelete"
    /\ prev.name = last.name
    /\ ~prev.err
    /\ ~last.err

\* C14 as stated: when ContainerCreateFromImage and then ContainerDelete of
\* the same container have both returned without error, the datasets of the
\* pool are those before the two calls and, when images/<fp> did not exist
\* before, images/<fp> with its readonly snapshot.
C14_AsStated ==
    CreatedFromImageThenDeleted =>
        LET image == Full(ImageFs(prev.arg)) IN
        /\ DOMAIN datasets =
              DOMAIN before.prev \cup (IF prev.image.existed THEN {} ELSE {image})
        /\ SnapExists(datasets, image, ReadOnly)

\* C14 as amended: when ContainerCreateFromImage and then ContainerDelete
\* of the same container have both returned without error, the datasets of
\* the pool are those before the two calls, each with the snapshots it had,
\* except that, when images/<fp> did not exist before, images/<fp> with its
\* readonly snapshot has been added and deleted/images/<fp>, if the pool
\* held it, is gone.
C14_CreateDeleteRestores ==
    CreatedFromImageThenDeleted =>
        LET image == Full(ImageFs(prev.arg))
            buried == Full(DeletedImageFs(prev.arg))
        IN  /\ DOMAIN datasets =
                  IF prev.image.existed THEN DOMAIN before.prev
                  ELSE (DOMAIN before.prev \ {buried}) \cup {image}
            /\ \A d \in DOMAIN before.prev \cap DOMAIN datasets :
                  datasets[d].snaps = before.prev[d].snaps
            /\ SnapExists(datasets, image, ReadOnly)

\* a container was created from an image the pool did not hold and deleted
\* again: the container is gone and the image stays
C14_Witness ==
    /\ CreatedFromImageThenDeleted
    /\ ~prev.image.existed
    /\ ~Exists(datasets, LastContainer)
    /\ Full(ImageFs(prev.arg)) \in DOMAIN datasets \ DOMAIN before.prev

\* the last two calls were ContainerRename(a to b) and ContainerRename(b to
\* a), both without error
RoundTrip ==
    /\ prev.op = "ContainerRename"
    /\ last.op = "ContainerRename"
    /\ last.name = prev.arg
    /\ last.arg = prev.name
    /\ ~prev.err
    /\ ~last.err

\* C16 as stated: after ContainerRename(a to b) and ContainerRename(b to a),
\* both without error, the datasets, their snapshots and their mountpoints
\* are those before the first rename.
C16_AsStated == RoundTrip => Listing(datasets) = before.prev

\* C16 as amended: after ContainerRename(a to b) and ContainerRename(b to
\* a), both without error, the datasets and their snapshots are those before
\* the first rename, every dataset other than containers/a has the
\* mountpoint it had, and containers/a has the canonical mountpoint of a.
C16_RoundTrip ==
    RoundTrip =>
        LET a == Full(ContainerFs(prev.name)) IN
        /\ DOMAIN datasets = DOMAIN before.prev
        /\ \A d \in DOMAIN datasets :
              /\ datasets[d].snaps = before.prev[d].snaps
              /\ d # a => datasets[d].mountpoint = before.prev[d].mountpoint
        /\ datasets[a].mountpoint = getContainerMountPoint(PoolName, prev.name)

\* a container with a snapshot was renamed and renamed back, and the
\* listing is the one before the first rename
C16_Witness ==
    /\ RoundTrip
    /\ Len(datasets[Full(ContainerFs(prev.name))].snaps) > 0
    /\ Listing(datasets) = before.prev

\* C17 as stated: after ContainerRename(old to new) has returned without
\* error for a container whose pool directory snapshots/old existed,
\* containers/new exists with the canonical mountpoint of new, the pool
\* directory snapshots/new exists and snapshots/old does not, there is no
\* symlink <var>/snapshots/old, and the symlink <var>/snapshots/new points
\* at the pool directory snapshots/new.
C17_AsStated ==
    (last.op = "ContainerRename" /\ ~last.err /\ last.tree) =>
        LET new == Full(ContainerFs(last.arg))
            newDir == getSnapshotMountPoint(PoolName, last.arg)
            oldDir == getSnapshotMountPoint(PoolName, last.name)
        IN  /\ Exists(datasets, new)
            /\ ~Exists(datasets, LastContainer)
            /\ datasets[new].mountpoint = getContainerMountPoint(PoolName, last.arg)
            /\ newDir \in files.dirs
            /\ oldDir \notin files.dirs
            /\ \A l \in files.links : l[1] # VarPath("snapshots", last.name)
            /\ <<VarPath("snapshots", last.arg), newDir>> \in files.links

\* ContainerRename has returned without error, no command having failed,
\* for a container with a snapshot directory: the directory has moved, the
\* old symlink is gone and there is no symlink for the new name
C17_Divergence ==
    /\ last.op = "ContainerRename"
    /\ ~last.err
    /\ last.faults = 0
    /\ last.tree
    /\ getSnapshotMountPoint(PoolName, last.arg) \in files.dirs
    /\ \A l \in files.links : l[1] \notin {VarPath("snapshots", last.name),
                                          VarPath("snapshots", last.arg)}

----------------------------------------------------------------------------
(* Migration.  The source driver of a container sends zfs streams over a   *)
(* connection, the sink of another daemon receives them into its own pool. *)
(* mig.src is the zfsMigrationSourceDriver and the point its caller has    *)
(* reached, mig.conn the streams in flight, mig.sent every stream emitted, *)
(* mig.sink the pool, files and position of MigrationSink and the streams  *)
(* it has consumed.  A stream is the snapshot it was made of, the -i       *)
(* parent, and whether zfs send produced it whole.                         *)

MigrationSnapNames == {"s1", "s2"}
MigrationSend(u) == <<"migration-send", u>>

NewMigration(live) ==
    [live |-> live,
     src |-> [pc |-> "new", zfsSnapshotNames |-> <<>>, i |-> 1,
              runningSnapName |-> NoSnap, stoppedSnapName |-> NoSnap,
              err |-> FALSE, cleanupFaults |-> 0],
     conn |-> <<>>,
     sent |-> <<>>,
     sink |-> [pc |-> "new", snapshots |-> <<>>, i |-> 1,
               ds |-> PoolWithContainer("c1"), files |-> NoFiles,
               log |-> <<>>, guids |-> <<>>, received |-> <<>>,
               err |-> FALSE, cleanupFaults |-> 0]]

\* the datasets of the sink's pool have the names of the source's
SinkWorld(fails) ==
    [ds |-> mig.sink.ds, db |-> {}, uu |-> 0, log |-> mig.sink.log,
     files |-> mig.sink.files, step |-> 0, fails |-> fails, err |-> FALSE,
     didWork |-> FALSE, graveOk |-> TRUE, guids |-> mig.sink.guids,
     dropped |-> mig.sink.cleanupFaults]

Before(seq, a, b) ==
    \E i, j \in 1..Len(seq) : i < j /\ seq[i] = a /\ seq[j] = b

\* zfs send <pool>/containers/<c>@<zfsName> [-i <pool>/containers/<c>@<zfsParent>]
send(w, c, zfsName, zfsParent) ==
    LET full == Full(ContainerFs(c)) IN
    IF \/ Hit(w)
       \/ ~SnapExists(w.ds, full, zfsName)
       \/ (zfsParent # NoSnap /\ ~Before(w.ds[full].snaps, zfsParent, zfsName))
    THEN Failed(w)
    ELSE Done(w, w.ds, <<"send", c, zfsName, zfsParent>>)

\* what shared.WebsocketSendStream has put on the connection when send returns
Stream(w, c, zfsName, zfsParent) ==
    [name |-> zfsName, parent |-> zfsParent,
     ok |-> ~send(w, c, zfsName, zfsParent).err]

\* a loop that sends every snapshot in full
PrevSnapNone(names, i) == NoSnap

\* prev := ""; if i > 0 { prev = s.zfsSnapshotNames[i-1] }
PrevSnap(names, i) == IF i > 1 THEN names[i - 1] ELSE NoSnap

\* lastSnap after the loop over s.zfsSnapshotNames
LastSnap(names) == IF names = <<>> THEN NoSnap ELSE names[Len(names)]

\* the snapshots MigrationSource keeps: strings.HasPrefix(snap, "snapshot-")
MigrationSourceNames(w, c) ==
    SelectSeq(zfsPoolListSnapshots(w, ContainerFs(c)),
              LAMBDA x : x[1] = "snapshot")

\* a cleanup that forgets the stopped snapshot
CleanupStoppedNever(w, c, d) == w

CleanupStopped(w, c, d) ==
    IF d.stoppedSnapName # NoSnap
    THEN zfsPoolVolumeSnapshotDestroy(w, ContainerFs(c), d.stoppedSnapName)
    ELSE w

\* both destroys run, their errors are dropped
Cleanup(w, c, d) ==
    LET w1 == CleanupStopped(w, c, d) IN
    IF d.runningSnapName # NoSnap
    THEN Ok(zfsPoolVolumeSnapshotDestroy(w1, ContainerFs(c), d.runningSnapName))
    ELSE Ok(w1)

\* zfs receive -F -u <pool>/<target> of one stream: a full stream needs a
\* filesystem without snapshots, an incremental one needs its parent to be
\* the latest snapshot of the filesystem; the snapshot received is named by
\* the target when that names one and by the stream otherwise
zfsRecv(w, target, stream, mounts) ==
    LET full == Full(target.fs)
        name == IF target.snap = NoSnap THEN stream.name ELSE target.snap
        wl == Log1(w, <<"receive", target.fs, target.snap>>)
    IN  IF \/ Hit(w) \/ ~stream.ok \/ ~Exists(w.ds, full)
           \/ SnapExists(w.ds, full, name)
           \/ (stream.parent = NoSnap /\ w.ds[full].snaps # <<>>)
           \/ (stream.parent # NoSnap /\
                  (w.guids = <<>> \/ w.guids[Len(w.guids)] # stream.parent))
        THEN Failed(wl)
        ELSE [wl EXCEPT !.step = @ + 1, !.err = FALSE,
                        !.ds = [@ EXCEPT ![full].snaps = Append(@, name),
                                         ![full].mounted = mounts],
                        !.guids = Append(@, stream.name)]

\* a connection that hands over the newest stream first
NextStreamNewest(conn) == conn[Len(conn)]

\* the stream the sink's next receive reads, and what is left in flight
NextStream(conn) == Head(conn)
RestOfConn(conn) == Tail(conn)

\* getSnapshotMountPoint(poolName, "<c>/<s>") with the on-disk pool name
SinkSnapshotMountPoint(c, s) ==
    <<"storage-pools">> \o onDiskPoolName \o <<"snapshots", c, s>>

\* the deferred function of MigrationSink; w.dropped counts the destroys
\* whose error it drops
RECURSIVE SinkCleanup(_, _, _, _)
SinkCleanup(w, c, zfsSnapshots, snapshots) ==
    IF zfsSnapshots = <<>> THEN w
    ELSE LET snap == Head(zfsSnapshots)
             wd == zfsPoolVolumeSnapshotDestroy(w, ContainerFs(c), snap)
             w1 == IF Len(snapshots) > 0 /\ snap[1] # "migration-send"
                   THEN w
                   ELSE IF wd.err THEN [wd EXCEPT !.dropped = @ + 1]
                   ELSE wd
         IN  SinkCleanup(w1, c, Tail(zfsSnapshots), snapshots)

\* a cleanup that destroys nothing
SinkDeferredNothing(w, c, snapshots, err) ==
    Deferred(Log1(w, <<"list", ContainerFs(c)>>), err)

\* the deferred function lists the snapshots (zfs list) and destroys
SinkDeferred(w, c, snapshots, err) ==
    LET wl == Log1(w, <<"list", ContainerFs(c)>>) IN
    Deferred(SinkCleanup(wl, c, zfsPoolListSnapshots(wl, ContainerFs(c)),
                         snapshots),
             err)

\* the snapshots the sink is told to expect are those of the source driver
ExpectedSnapshots(names) == UserSnaps(names)

\* SendAfterCheckpoint is called for a live migration only, once
\* SendWhileRunning has returned without error
CheckpointDue == mig.live /\ mig.src.pc = "returned" /\ ~mig.src.err

\* Cleanup is called once a send method of the driver has returned
CleanupDue == mig.src.pc \in {"returned", "finished"}

CoordinatorUnchanged ==
    UNCHANGED <<lxdStorageMapLock, lxdStorageOngoingOperationMap, channels, pc,
                call, waitChannel, made, ourMount, imgerr, invoked, ret>>

\* a step of the source commits its world
SourceStep(w, m) ==
    /\ \A i \in w.fails : i <= w.step
    /\ faultsUsed' = faultsUsed + Cardinality(w.fails)
    /\ w.uu <= MaxUuid
    /\ datasets' = w.ds
    /\ uuidNext' = w.uu
    /\ log' = w.log
    /\ mig' = m
    /\ UNCHANGED <<dataset, imageDb, last, opsDone, files, prev, before, poolState>>
    /\ CoordinatorUnchanged

\* a step of the sink commits its world
SinkStep(w, pcNext, i, err, conn, received) ==
    /\ \A k \in w.fails : k <= w.step
    /\ faultsUsed' = faultsUsed + Cardinality(w.fails)
    /\ mig' = [mig EXCEPT !.conn = conn,
                          !.sink.pc = pcNext, !.sink.i = i, !.sink.err = err,
                          !.sink.ds = w.ds, !.sink.files = w.files,
                          !.sink.log = w.log, !.sink.guids = w.guids,
                          !.sink.received = received,
                          !.sink.cleanupFaults = w.dropped]
    /\ UNCHANGED <<dataset, datasets, imageDb, uuidNext, log, last, opsDone,
                   files, prev, before, poolState>>
    /\ CoordinatorUnchanged

\* MigrationSource(ct) of a container that is not a snapshot; the snapshots
\* of the driver it returns are the ones the sink is told to expect
DoMigrationSource(c) ==
    /\ mig.src.pc = "new"
    /\ HasContainer(c)
    /\ \E fails \in FaultPlans :
        LET w == World(fails)
            names == MigrationSourceNames(w, c)
            wl == IF names = <<>> THEN w
                  ELSE Hook(w, <<"containerLoadByName", c>>)
        IN  SourceStep(wl,
                IF wl.err
                THEN [mig EXCEPT !.src.pc = "nodriver", !.src.err = TRUE]
                ELSE [mig EXCEPT !.src.pc = "SendWhileRunning",
                                 !.src.zfsSnapshotNames = names,
                                 !.sink.snapshots = ExpectedSnapshots(names)])

\* SendWhileRunning: one turn of the loop over s.zfsSnapshotNames
SendWhileRunningSnapshot(c) ==
    /\ mig.src.pc = "SendWhileRunning"
    /\ mig.src.i <= Len(mig.src.zfsSnapshotNames)
    /\ \E fails \in FaultPlans :
        LET w == World(fails)
            names == mig.src.zfsSnapshotNames
            snap == names[mig.src.i]
            ws == send(w, c, snap, PrevSnap(names, mig.src.i))
            st == Stream(w, c, snap, PrevSnap(names, mig.src.i))
            m == [mig EXCEPT !.conn = Append(@, st), !.sent = Append(@, st)]
        IN  SourceStep(ws,
                IF ws.err
                THEN [m EXCEPT !.src.pc = "returned", !.src.err = TRUE]
                ELSE [m EXCEPT !.src.i = @ + 1])

\* SendWhileRunning after the loop: the running snapshot is named, made
\* and sent
SendWhileRunningContainer(c) ==
    /\ mig.src.pc = "SendWhileRunning"
    /\ mig.src.i > Len(mig.src.zfsSnapshotNames)
    /\ \E fails \in FaultPlans :
        LET w == World(fails)
            running == MigrationSend(NewUuid(w))
            wc == zfsPoolVolumeSnapshotCreate(DrawUuid(w), ContainerFs(c), running)
            lastSnap == LastSnap(mig.src.zfsSnapshotNames)
            ws == send(wc, c, running, lastSnap)
            st == Stream(wc, c, running, lastSnap)
            m == [mig EXCEPT !.src.runningSnapName = running,
                             !.src.pc = "returned"]
        IN  IF wc.err
            THEN SourceStep(wc, [m EXCEPT !.src.err = TRUE])
            ELSE SourceStep(ws, [m EXCEPT !.src.err = ws.err,
                                          !.conn = Append(@, st),
                                          !.sent = Append(@, st)])

SendAfterCheckpoint(c) ==
    /\ CheckpointDue
    /\ \E fails \in FaultPlans :
        LET w == World(fails)
            stopped == MigrationSend(NewUuid(w))
            wc == zfsPoolVolumeSnapshotCreate(DrawUuid(w), ContainerFs(c), stopped)
            ws == send(wc, c, stopped, mig.src.runningSnapName)
            st == Stream(wc, c, stopped, mig.src.runningSnapName)
            m == [mig EXCEPT !.src.stoppedSnapName = stopped,
                             !.src.pc = "finished"]
        IN  IF wc.err
            THEN SourceStep(wc, [m EXCEPT !.src.err = TRUE])
            ELSE SourceStep(ws, [m EXCEPT !.src.err = ws.err,
                                          !.conn = Append(@, st),
                                          !.sent = Append(@, st)])

DoCleanup(c) ==
    /\ CleanupDue
    /\ \E fails \in FaultPlans :
        LET w == Cleanup(World(fails), c, mig.src)
        IN  SourceStep(w, [mig EXCEPT !.src.pc = "cleaned",
                                      !.src.cleanupFaults = Cardinality(fails)])

\* MigrationSink up to the loop: the unmount and the symlink
MigrationSinkUmount(c) ==
    /\ mig.sink.pc = "new"
    /\ mig.src.pc \notin {"new", "nodriver"}
    /\ \E fails \in FaultPlans :
        LET w == SinkWorld(fails)
            wu == zfsPoolVolumeUmount(w, ContainerFs(c))
            link == VarPath("snapshots", c)
            wl == IF Len(mig.sink.snapshots) > 0 /\ ~sharedPathExists(wu, link)
                  THEN osSymlink(wu, getSnapshotMountPoint(PoolName, VolumeName(c)),
                                 link)
                  ELSE wu
        IN  IF wu.err
            THEN SinkStep(wu, "returned", 1, TRUE, mig.conn, mig.sink.received)
            ELSE IF wl.err
            THEN SinkStep(wl, "returned", 1, TRUE, mig.conn, mig.sink.received)
            ELSE SinkStep(wl, IF Len(mig.sink.snapshots) > 0
                              THEN "snapshot" ELSE "base",
                          1, FALSE, mig.conn, mig.sink.received)

\* one turn of the loop over snapshots: the record, the receive, the directory
MigrationSinkSnapshot(c, mounts) ==
    /\ mig.sink.pc = "snapshot"
    /\ \E fails \in FaultPlans :
        LET w == SinkWorld(fails)
            s == mig.sink.snapshots[mig.sink.i]
            wh == Hook(w, <<"containerCreateEmptySnapshot", c, s>>)
            wr == zfsRecv(wh, Path(ContainerFs(c), Snapshot(s)),
                          NextStream(mig.conn), mounts)
            dir == SinkSnapshotMountPoint(c, s)
            wd == IF ~sharedPathExists(wr, dir) THEN osMkdirAll(wr, dir) ELSE wr
            done == mig.sink.i = Len(mig.sink.snapshots)
        IN  IF wh.err
            THEN /\ ~mounts
                 /\ SinkStep(wh, "returned", mig.sink.i, TRUE, mig.conn,
                             mig.sink.received)
            ELSE /\ mig.conn # <<>>
                 /\ mounts => (~wr.err /\ wr.ds[Full(ContainerFs(c))].mountpoint # None)
                 /\ LET conn == RestOfConn(mig.conn)
                        rcvd == Append(mig.sink.received, NextStream(mig.conn))
                    IN  IF wr.err
                        THEN SinkStep(wr, "returned", mig.sink.i, TRUE, conn, rcvd)
                        ELSE IF wd.err
                        THEN SinkStep(wd, "returned", mig.sink.i, TRUE, conn, rcvd)
                        ELSE SinkStep(wd, IF done THEN "base" ELSE "snapshot",
                                      mig.sink.i + 1, FALSE, conn, rcvd)

\* the receive of the container itself; the deferred function runs when it
\* fails
MigrationSinkBase(c, mounts) ==
    /\ mig.sink.pc = "base"
    /\ mig.conn # <<>>
    /\ \E fails \in FaultPlans :
        LET w == SinkWorld(fails)
            wr == zfsRecv(w, FsPath(ContainerFs(c)), NextStream(mig.conn), mounts)
            conn == RestOfConn(mig.conn)
            rcvd == Append(mig.sink.received, NextStream(mig.conn))
        IN  /\ mounts => ~wr.err
            /\ IF wr.err
               THEN SinkStep(SinkDeferred(wr, c, mig.sink.snapshots, TRUE),
                             "returned", mig.sink.i, TRUE, conn, rcvd)
               ELSE SinkStep(wr, IF mig.live THEN "live" ELSE "mount",
                             mig.sink.i, FALSE, conn, rcvd)

\* if live: the receive of the post-checkpoint increment
MigrationSinkLive(c, mounts) ==
    /\ mig.sink.pc = "live"
    /\ mig.conn # <<>>
    /\ \E fails \in FaultPlans :
        LET w == SinkWorld(fails)
            wr == zfsRecv(w, FsPath(ContainerFs(c)), NextStream(mig.conn), mounts)
            conn == RestOfConn(mig.conn)
            rcvd == Append(mig.sink.received, NextStream(mig.conn))
        IN  /\ mounts => ~wr.err
            /\ IF wr.err
               THEN SinkStep(SinkDeferred(wr, c, mig.sink.snapshots, TRUE),
                             "returned", mig.sink.i, TRUE, conn, rcvd)
               ELSE SinkStep(wr, "mount", mig.sink.i, FALSE, conn, rcvd)

\* the mount, whose error is dropped, the return and the deferred function
MigrationSinkMount(c) ==
    /\ mig.sink.pc = "mount"
    /\ \E fails \in FaultPlans :
        LET w == SinkWorld(fails)
            wm == zfsPoolVolumeMount(w, ContainerFs(c))
        IN  SinkStep(SinkDeferred(wm, c, mig.sink.snapshots, FALSE),
                     "returned", mig.sink.i, FALSE, mig.conn, mig.sink.received)

\* before the migration the container is snapshotted and copied
MigrationSnapshotCreate(c, s) ==
    /\ mig.src.pc = "new"
    /\ DoContainerSnapshotCreate(c, s)

MigrationCopy(name, c) ==
    /\ mig.src.pc = "new"
    /\ DoContainerCopy(name, c, "")

InitMigration ==
    /\ dataset \in Datasets
    /\ datasets = PoolWithContainer("c1")
    /\ imageDb = {}
    /\ uuidNext = 0
    /\ log = <<>>
    /\ last = NoCall
    /\ faultsUsed = 0
    /\ opsDone = 0
    /\ files = NoFiles
    /\ prev = NoCall
    /\ before = NoHistory
    /\ \E live \in BOOLEAN : mig = NewMigration(live)
    /\ poolState = NoPool
    /\ NoCallers

NextMigration ==
    \/ \E s \in MigrationSnapNames : MigrationSnapshotCreate("c1", s)
    \/ MigrationCopy("c2", "c1")
    \/ DoMigrationSource("c1")
    \/ SendWhileRunningSnapshot("c1")
    \/ SendWhileRunningContainer("c1")
    \/ SendAfterCheckpoint("c1")
    \/ DoCleanup("c1")
    \/ MigrationSinkUmount("c1")
    \/ \E mounts \in BOOLEAN : MigrationSinkSnapshot("c1", mounts)
    \/ \E mounts \in BOOLEAN : MigrationSinkBase("c1", mounts)
    \/ \E mounts \in BOOLEAN : MigrationSinkLive("c1", mounts)
    \/ MigrationSinkMount("c1")

SpecMigration == InitMigration /\ [][NextMigration]_vars

----------------------------------------------------------------------------
(* Claims about migration (specification SpecMigration).                   *)

SourceContainer == Full(ContainerFs("c1"))
SourceUserSnapshots ==
    SelectSeq(datasets[SourceContainer].snaps, LAMBDA x : x[1] = "snapshot")
SourceHasDriver == mig.src.pc \notin {"new", "nodriver"}
LogPositions(lg, kind) == {i \in 1..Len(lg) : lg[i][1] = kind}

\* C18: the driver of a container that is not a snapshot holds its
\* snapshot-* snapshots in creation order; the streams it emits are, in
\* this order and without a gap: each snapshot, the first in full and
\* every other one with -i its predecessor; the running migration-send
\* snapshot with -i the last snapshot (in full when there is none); and,
\* from SendAfterCheckpoint, the stopped migration-send snapshot with -i
\* the running snapshot sent before it.  A stream is only emitted after
\* every earlier one was sent whole, and a send method that returns
\* without error has emitted all of its streams.
C18_IncrementalChain ==
    SourceHasDriver =>
        LET names == mig.src.zfsSnapshotNames
            n == Len(names)
            sent == mig.sent
        IN  /\ names = SourceUserSnapshots
            /\ Len(sent) <= n + 2
            /\ \A k \in 1..Len(sent) :
                /\ k <= n =>
                    /\ sent[k].name = names[k]
                    /\ sent[k].parent = IF k = 1 THEN NoSnap ELSE names[k - 1]
                /\ k = n + 1 =>
                    /\ sent[k].name = mig.src.runningSnapName
                    /\ sent[k].name[1] = "migration-send"
                    /\ sent[k].parent = IF n = 0 THEN NoSnap ELSE names[n]
                /\ k = n + 2 =>
                    /\ mig.live
                    /\ sent[k].name = mig.src.stoppedSnapName
                    /\ sent[k].name[1] = "migration-send"
                    /\ sent[k].name # sent[n + 1].name
                    /\ sent[k].parent = sent[n + 1].name
                /\ k < Len(sent) => sent[k].ok
            /\ (mig.src.pc = "returned" /\ ~mig.src.err) => Len(sent) = n + 1
            /\ (mig.src.pc = "finished" /\ ~mig.src.err) => Len(sent) = n + 2

\* a live migration of a container with two snapshots has sent its four
\* streams
C18_Witness ==
    /\ mig.src.pc = "finished"
    /\ ~mig.src.err
    /\ Len(mig.src.zfsSnapshotNames) = 2
    /\ Len(mig.sent) = 4
    /\ mig.sent[4].parent = mig.sent[3].name

\* C19: once Cleanup has run, none of its zfs destroy commands having
\* failed, the source container has no migration-send snapshot, whichever
\* step of SendWhileRunning or SendAfterCheckpoint failed before; and the
\* snapshot-* snapshots of the container are the ones it had when the
\* driver was made, whatever failed.
C19_CleanupRemoves ==
    SourceHasDriver =>
        /\ SourceUserSnapshots = mig.src.zfsSnapshotNames
        /\ (mig.src.pc = "cleaned" /\ mig.src.cleanupFaults = 0) =>
              \A i \in 1..Len(datasets[SourceContainer].snaps) :
                  datasets[SourceContainer].snaps[i][1] # "migration-send"

\* Cleanup has destroyed the running and the stopped snapshot of a live
\* migration whose last send failed, and the container has a snapshot left
C19_Witness ==
    /\ mig.src.pc = "cleaned"
    /\ mig.src.cleanupFaults = 0
    /\ mig.src.err
    /\ mig.src.zfsSnapshotNames # <<>>
    /\ <<"destroy", ContainerFs("c1"), mig.src.runningSnapName>> \in SeqToSet(log)
    /\ <<"destroy", ContainerFs("c1"), mig.src.stoppedSnapName>> \in SeqToSet(log)

SinkReceives == SelectSeq(mig.sink.log, LAMBDA e : e[1] = "receive")
SinkTransfers ==
    Len(mig.sink.snapshots) + 1 + (IF mig.live THEN 1 ELSE 0)
ExpectedReceives ==
    [k \in 1..SinkTransfers |->
        IF k <= Len(mig.sink.snapshots)
        THEN <<"receive", ContainerFs("c1"), Snapshot(mig.sink.snapshots[k])>>
        ELSE <<"receive", ContainerFs("c1"), NoSnap>>]

\* C20: the first command of MigrationSink is the unmount of
\* containers/<name>, and it is the only unmount; its receives are, in this
\* order, one into containers/<name>@snapshot-<s> for each expected
\* snapshot, one into containers/<name>, and one more into
\* containers/<name> exactly when live; the mount comes after all of them;
\* the k-th receive consumes the k-th stream the source emitted, that of
\* the k-th expected snapshot while there is one; and a sink that returns
\* without error has made as many transfers as the source, none being left
\* in flight.
C20_SinkOrder ==
    mig.sink.pc # "new" =>
        LET lg == mig.sink.log
            received == mig.sink.received
        IN  /\ lg[1] = <<"unmount", ContainerFs("c1")>>
            /\ LogPositions(lg, "unmount") = {1}
            /\ IsPrefix(SinkReceives, ExpectedReceives)
            /\ \A j \in LogPositions(lg, "mount") :
                /\ SinkReceives = ExpectedReceives
                /\ \A i \in LogPositions(lg, "receive") : i < j
            /\ Len(received) = Len(SinkReceives)
            /\ Len(received) <= Len(mig.sent)
            /\ \A k \in 1..Len(received) :
                /\ received[k] = mig.sent[k]
                /\ k <= Len(mig.sink.snapshots) =>
                      received[k].name = Snapshot(mig.sink.snapshots[k])
            /\ (mig.sink.pc = "returned" /\ ~mig.sink.err) =>
                /\ LogPositions(lg, "mount") # {}
                /\ Len(received) = SinkTransfers
                /\ Len(mig.sent) = SinkTransfers
                /\ mig.conn = <<>>

\* the sink of a live migration with two snapshots has returned without
\* error after four receives
C20_Witness ==
    /\ mig.sink.pc = "returned"
    /\ ~mig.sink.err
    /\ mig.live
    /\ Len(mig.sink.snapshots) = 2
    /\ Len(mig.sink.received) = 4
    /\ mig.sink.ds[SourceContainer].mounted

\* C21 as stated: an error of MigrationSink ends it at once, and its
\* deferred cleanup has run on every return, the ones from the unmount and
\* from the loop over the snapshots included.
C21_AsStated ==
    /\ mig.sink.pc # "new" => (mig.sink.err => mig.sink.pc = "returned")
    /\ (mig.sink.pc # "new" /\ mig.sink.pc = "returned") =>
          LogPositions(mig.sink.log, "list") # {}

\* MigrationSink has received the first of two snapshots and returned the
\* error of the second receive, which was its last command: the deferred
\* cleanup never listed the snapshots of the container
C21_Divergence ==
    /\ mig.sink.pc = "returned"
    /\ mig.sink.err
    /\ Len(mig.sink.snapshots) = 2
    /\ mig.sink.ds[SourceContainer].snaps = <<Snapshot(mig.sink.snapshots[1])>>
    /\ Len(SinkReceives) = 2
    /\ mig.sink.log[Len(mig.sink.log)][1] = "receive"
    /\ LogPositions(mig.sink.log, "list") = {}

SinkSnapshots == mig.sink.ds[SourceContainer].snaps

\* C22 as stated: once MigrationSink has returned without error the
\* container has no migration-send snapshot; with a snapshot list its
\* snapshots are the expected ones, without one it has none.
C22_AsStated ==
    (mig.sink.pc # "new" /\ mig.sink.pc = "returned" /\ ~mig.sink.err) =>
        /\ \A i \in 1..Len(SinkSnapshots) : SinkSnapshots[i][1] # "migration-send"
        /\ Len(mig.sink.snapshots) > 0 =>
              SinkSnapshots = [i \in 1..Len(mig.sink.snapshots) |->
                                  Snapshot(mig.sink.snapshots[i])]
        /\ Len(mig.sink.snapshots) = 0 => SinkSnapshots = <<>>

\* C22: once MigrationSink has returned without error, no zfs destroy of
\* its deferred cleanup having failed, the container has no migration-send
\* snapshot; with a snapshot list its snapshots are the expected ones in
\* their order, without one it has no snapshot.  Whether a destroy failed
\* or not, the snapshot-* snapshots received are kept when there is a list.
C22_CleanupOnSuccess ==
    (mig.sink.pc # "new" /\ mig.sink.pc = "returned" /\ ~mig.sink.err) =>
        /\ mig.sink.cleanupFaults = 0 =>
            /\ \A i \in 1..Len(SinkSnapshots) :
                  SinkSnapshots[i][1] # "migration-send"
            /\ Len(mig.sink.snapshots) = 0 => SinkSnapshots = <<>>
        /\ Len(mig.sink.snapshots) > 0 =>
              SelectSeq(SinkSnapshots, LAMBDA x : x[1] = "snapshot") =
                  [i \in 1..Len(mig.sink.snapshots) |->
                      Snapshot(mig.sink.snapshots[i])]

\* the sink of a live migration with a snapshot has returned without error
\* and its cleanup has destroyed the two migration-send snapshots received
C22_Witness ==
    /\ mig.sink.pc = "returned"
    /\ ~mig.sink.err
    /\ mig.sink.cleanupFaults = 0
    /\ mig.live
    /\ Len(mig.sink.snapshots) > 0
    /\ Cardinality(LogPositions(mig.sink.log, "destroy")) = 2
    /\ SinkSnapshots # <<>>

----------------------------------------------------------------------------
(* Pools.  s.pool.Config["source"] is a path: empty, relative (the name of *)
(* a zpool or of a dataset in one) or absolute (a block device, a file).   *)
(* poolState holds the configuration, the backing files under <var>/disks, *)
(* the locally set properties of the datasets and a pool that is on its    *)
(* device without being imported.                                          *)

NoSource == <<>>
BlockDev == <<"/", "dev", "sdb">>
TankPool == <<"tank">>
TankDataset == <<"tank", "lxd">>
PoolSources == {NoSource, TankPool, TankDataset, BlockDev}
\* s.pool.Config["zfs.pool_name"]
ZpoolNames == {"", "z"}
\* the sizes ContainerSetQuota is called with
QuotaSizes == {-1, 0, 1024}
QuotaContainers == {"c1"}
NoExport == [ds |-> <<>>, props |-> <<>>]

filepathIsAbs(path) == path # <<>> /\ path[1] = "/"
sharedIsBlockdevPath(path) == path = BlockDev

\* filepath.Join(shared.VarPath("disks"), s.pool.Name)
DisksPath(name) == <<"/", "var", "disks", name>>
\* vdev + ".img"
Img(vdev) == Append(vdev, ".img")

getStoragePoolMountPoint(name) == <<"storage-pools", name>>

\* StoragePoolInit: a source that is not absolute is taken for a dataset
StoragePoolInit(source) ==
    IF source # <<>> /\ ~filepathIsAbs(source) THEN source ELSE <<>>

\* strings.Contains(s.dataset, "/")
ContainsSlash(ds) == Len(ds) > 1

\* zfs get mountpoint -H -o source
MountpointSource(w, full) ==
    IF <<full, "mountpoint">> \in DOMAIN w.pool.props THEN "local"
    ELSE IF Len(full) = 1 THEN "default"
    ELSE "inherited"

\* the filesystems of the zpool of that name
InZpool(ds, name) == {d \in DOMAIN ds : d[1] = name}

\* zfs get type -H -o value <pool>: the model has filesystems only
zfsPoolCheck(w, full) ==
    IF Hit(w) \/ ~Exists(w.ds, full) THEN Failed(w)
    ELSE [w EXCEPT !.step = @ + 1, !.err = FALSE,
                   !.log = Append(@, <<"get", "type", full>>)]

\* zpool create <name> <vdev> -f -m none -O compression=on
zpoolCreate(w, name) ==
    IF w.err THEN w
    ELSE IF Hit(w) \/ Exists(w.ds, <<name>>) THEN Failed(w)
    ELSE SetLocal(Done(w, Put(w.ds, <<name>>, NewFs(NoOrigin, None, FALSE)),
                       <<"zpool", "create", name>>),
                  <<name>>, "mountpoint", None)

\* zpool destroy -f <name>
zpoolDestroy(w, name) ==
    IF Hit(w) \/ ~Exists(w.ds, <<name>>) THEN Failed(w)
    ELSE ForgetLocal(Done(w, Drop(w.ds, InZpool(w.ds, name)),
                          <<"zpool", "destroy", name>>),
                     InZpool(w.ds, name))

\* zpool import <source> <poolName>: the pool on the device comes back
\* with the datasets and the properties it was exported with
zpoolImport(w, name) ==
    IF Hit(w) \/ w.pool.exported = NoExport \/ Exists(w.ds, <<name>>) THEN Failed(w)
    ELSE [Done(w, [d \in DOMAIN w.ds \cup DOMAIN w.pool.exported.ds |->
                      IF d \in DOMAIN w.ds THEN w.ds[d] ELSE w.pool.exported.ds[d]],
               <<"zpool", "import", name>>)
          EXCEPT !.pool.props =
                     [k \in DOMAIN @ \cup DOMAIN w.pool.exported.props |->
                         IF k \in DOMAIN @ THEN @[k] ELSE w.pool.exported.props[k]],
                 !.pool.exported = NoExport]

\* os.RemoveAll(vdev) of the loop file
RemoveLoopFile(w) ==
    IF w.err THEN w
    ELSE IF filepathIsAbs(w.pool.source) /\ ~sharedIsBlockdevPath(w.pool.source)
    THEN [w EXCEPT !.pool.disks = @ \ {w.pool.source}]
    ELSE w

zfsPoolDelete(w) == RemoveLoopFile(zpoolDestroy(w, PoolName))

RemovePoolMountPoint(w) ==
    IF w.err THEN w
    ELSE IF sharedPathExists(w, getStoragePoolMountPoint(PoolName))
    THEN osRemoveAll(w, getStoragePoolMountPoint(PoolName))
    ELSE Ok(w)

\* a StoragePoolDelete that leaves every zpool alone when s.dataset is set
StoragePoolDeleteOwnOnly(w) ==
    RemovePoolMountPoint(IF dataset = <<>> THEN zfsPoolDelete(w) ELSE w)

StoragePoolDelete(w) ==
    RemovePoolMountPoint(
        IF dataset = <<>> \/ (dataset # <<>> /\ ~ContainsSlash(dataset))
        THEN zfsPoolDelete(w) ELSE w)

\* the source exists: a block device, or a file under <var>/disks
SourceExists(w) ==
    sharedIsBlockdevPath(w.pool.source) \/ w.pool.source \in w.pool.disks

ImportIfMissing(w) ==
    IF ~w.err THEN w
    ELSE IF filepathIsAbs(w.pool.source) /\ SourceExists(w)
    THEN zpoolImport(w, onDiskPoolName[1])
    ELSE w

GetMountpointSource(w) ==
    IF w.err THEN w
    ELSE IF Hit(w) THEN Failed(w)
    ELSE [w EXCEPT !.step = @ + 1,
                   !.log = Append(@, <<"get", "mountpoint", onDiskPoolName>>)]

\* a check that resets the mountpoint where its source is "local"
ResetMountpointIfLocal(w) ==
    IF w.err THEN w
    ELSE IF MountpointSource(w, onDiskPoolName) = "local"
    THEN zfsPoolVolumeSet(w, <<>>, "mountpoint", None)
    ELSE Ok(w)

ResetMountpoint(w) ==
    IF w.err THEN w
    ELSE IF MountpointSource(w, onDiskPoolName) # "local"
    THEN zfsPoolVolumeSet(w, <<>>, "mountpoint", None)
    ELSE Ok(w)

StoragePoolCheck(w) ==
    ResetMountpoint(GetMountpointSource(ImportIfMissing(zfsPoolCheck(w, onDiskPoolName))))

\* the pool or dataset that was given (vdev, which is s.dataset) must be
\* empty
RequireEmpty(w, vdev) ==
    IF w.err THEN w
    ELSE IF Hit(w) THEN Failed(w)
    ELSE IF zfsPoolListSubvolumes(w, <<>>) # {}
    THEN Err([w EXCEPT !.step = @ + 1])
    ELSE [w EXCEPT !.step = @ + 1, !.log = Append(@, <<"list", vdev>>)]

\* s.pool.Config["source"] = vdev, then os.Create(vdev)
CreateLoopFile(w, vdev) ==
    IF Hit(w) THEN Failed([w EXCEPT !.pool.source = vdev])
    ELSE [w EXCEPT !.step = @ + 1, !.pool.source = vdev,
                   !.pool.disks = @ \cup {vdev},
                   !.log = Append(@, <<"Create", vdev>>)]

\* f.Chmod(0600), then f.Truncate(size)
FileStep(w, entry) == IF w.err THEN w ELSE Hook(w, entry)

TruncateLoopFile(w, vdev) ==
    FileStep(FileStep(w, <<"Chmod", vdev>>), <<"Truncate", vdev>>)

ZpoolName(w) == IF w.pool.zpoolName = "" THEN PoolName ELSE w.pool.zpoolName

zfsPoolCreate(w) ==
    LET vdev == IF w.pool.source = <<>> THEN DisksPath(PoolName) ELSE w.pool.source
    IN  IF ~filepathIsAbs(vdev) THEN RequireEmpty(zfsPoolCheck(w, vdev), vdev)
        ELSE IF ~sharedIsBlockdevPath(vdev)
        THEN zpoolCreate(TruncateLoopFile(CreateLoopFile(w, Img(vdev)), Img(vdev)),
                         ZpoolName(w))
        ELSE zpoolCreate([w EXCEPT !.pool.source = <<PoolName>>], ZpoolName(w))

SetRootNone(w, r) ==
    IF w.err THEN w ELSE zfsPoolVolumeSet(w, <<r>>, "mountpoint", None)

CreateRoot(w, r) ==
    IF w.err THEN w ELSE SetRootNone(zfsPoolVolumeCreate(w, <<r>>), r)

MkdirPoolMountPoint(w) ==
    IF w.err THEN w
    ELSE IF Hit(w) THEN Failed(w)
    ELSE FileDone(w, [w.files EXCEPT !.dirs =
                         @ \cup {getStoragePoolMountPoint(PoolName)}],
                  <<"MkdirAll", getStoragePoolMountPoint(PoolName)>>)

\* the deferred function of StoragePoolCreate
RevertPoolCreate(w) ==
    IF w.err THEN Deferred(StoragePoolDelete(Ok(w)), TRUE) ELSE w

CreateRoots(w) ==
    IF w.err THEN w
    ELSE RevertPoolCreate(MkdirPoolMountPoint(
             CreateRoot(CreateRoot(CreateRoot(CreateRoot(w, "containers"),
                                              "images"), "custom"), "deleted")))

StoragePoolCreate(w) == CreateRoots(zfsPoolCreate(w))

Digit == <<"0", "1", "2", "3", "4", "5", "6", "7", "8", "9">>

\* fmt.Sprintf("%d", size) of a positive size
RECURSIVE FormatInt(_)
FormatInt(n) ==
    IF n < 10 THEN <<Digit[n + 1]>>
    ELSE Append(FormatInt(n \div 10), Digit[(n % 10) + 1])

\* shared.IsTrue(s.volume.Config["zfs.use_refquota"])
UseRefquota(w, name) == w.pool.useRefquota[name]

\* a ContainerSetQuota that always writes quota
QuotaPropertyAlways(w, name) == "quota"

QuotaProperty(w, name) == IF UseRefquota(w, name) THEN "refquota" ELSE "quota"

ContainerSetQuota(w, name, size) ==
    IF size > 0
    THEN zfsPoolVolumeSet(w, ContainerFs(name), QuotaProperty(w, name), FormatInt(size))
    ELSE zfsPoolVolumeSet(w, ContainerFs(name), QuotaProperty(w, name), None)

\* the pool before a call, for the call to be compared with
PoolCall(fails) ==
    [Call(fails) EXCEPT !.pool.old = [ds |-> datasets, props |-> poolState.props,
                                      files |-> files,
                                      exported |-> poolState.exported]]

DoStoragePoolCreate ==
    \E fails \in FaultPlans :
        Return(StoragePoolCreate(PoolCall(fails)), "StoragePoolCreate", "", "", "")

DoStoragePoolCheck ==
    \E fails \in FaultPlans :
        Return(StoragePoolCheck(PoolCall(fails)), "StoragePoolCheck", "", "", "")

DoStoragePoolDelete ==
    \E fails \in FaultPlans :
        Return(StoragePoolDelete(PoolCall(fails)), "StoragePoolDelete", "", "", "")

\* s.volume.Config is what the caller loaded for the volume of the container
DoContainerSetQuota(name, size) ==
    \E fails \in FaultPlans, refquota \in BOOLEAN :
        Return(ContainerSetQuota(
                   [PoolCall(fails) EXCEPT !.pool.useRefquota[name] = refquota],
                   name, size),
               "ContainerSetQuota", name, "", size)

\* somebody else's pool tank with the dataset tank/lxd, empty or not, and
\* possibly a zpool that happens to have the name of the storage pool
OtherPools ==
    {[d \in {TankPool, TankDataset} \cup extra \cup foreign |-> NewFs(NoOrigin, d, FALSE)] :
     extra \in {{}, {<<"tank", "lxd", "data">>}},
     foreign \in {{}, {<<PoolName>>, <<PoolName, "data">>}}}

SchemaRoots == {<<PoolName, r>> : r \in {"containers", "images", "custom", "deleted"}}

\* a pool this driver made on a loop file, exported since; its root has
\* the mountpoint zpool create gave it, or inherits the default again
ExportedPools ==
    {[ds |-> [d \in {<<PoolName>>} \cup SchemaRoots |->
                 NewFs(NoOrigin, IF local \/ Len(d) > 1 THEN None ELSE d, FALSE)],
      props |-> [k \in {<<d, "mountpoint">> :
                           d \in SchemaRoots \cup (IF local THEN {<<PoolName>>} ELSE {})}
                    |-> None]] :
     local \in BOOLEAN}

\* the mountpoint of the dataset that was given: inherited, or set by hand
RootMountpoints == {<<"inherited">>, None, <<"mnt">>}

GivenDataset(tree, root, mp) ==
    IF root = <<>> \/ mp = <<"inherited">> THEN tree
    ELSE [tree EXCEPT ![root].mountpoint = mp]

GivenProps(root, mp) ==
    IF root = <<>> \/ mp = <<"inherited">> THEN <<>>
    ELSE [k \in {<<root, "mountpoint">>} |-> mp]

NewPool(source, zpoolName, tree, props, exported) ==
    [source |-> source, zpoolName |-> zpoolName,
     disks |-> IF exported = NoExport THEN {} ELSE {source},
     props |-> props, exported |-> exported,
     useRefquota |-> [c \in QuotaContainers |-> FALSE],
     old |-> [ds |-> tree, props |-> props, files |-> NoFiles,
              exported |-> exported]]

\* a pool that is yet to be created
FreshPools ==
    {[source |-> source, zpoolName |-> zpoolName, mp |-> mp, exported |-> NoExport] :
     source \in PoolSources, zpoolName \in ZpoolNames, mp \in RootMountpoints}

\* a pool that was created on a loop file by an earlier run
LoopPools ==
    {[source |-> Img(DisksPath(PoolName)), zpoolName |-> "", mp |-> <<"inherited">>,
      exported |-> e] : e \in ExportedPools}

InitPool ==
    /\ \E p \in FreshPools \cup LoopPools, tree \in OtherPools :
          /\ p.exported # NoExport => <<PoolName>> \notin DOMAIN tree
          /\ (StoragePoolInit(p.source) = <<>>) => p.mp = <<"inherited">>
          /\ (StoragePoolInit(p.source) # <<>>) => p.zpoolName = ""
          /\ dataset = StoragePoolInit(p.source)
          /\ datasets = GivenDataset(tree, StoragePoolInit(p.source), p.mp)
          /\ poolState = NewPool(p.source, p.zpoolName,
                                 GivenDataset(tree, StoragePoolInit(p.source), p.mp),
                                 GivenProps(StoragePoolInit(p.source), p.mp), p.exported)
    /\ imageDb = {}
    /\ uuidNext = 0
    /\ log = <<>>
    /\ last = NoCall
    /\ faultsUsed = 0
    /\ opsDone = 0
    /\ files = NoFiles
    /\ prev = NoCall
    /\ before = NoHistory
    /\ mig = NoMigration
    /\ NoCallers

NextPool ==
    \/ DoStoragePoolCreate
    \/ DoStoragePoolCheck
    \/ DoStoragePoolDelete
    \/ \E name \in QuotaContainers : DoContainerCreate(name)
    \/ \E name \in QuotaContainers, size \in QuotaSizes : DoContainerSetQuota(name, size)

SpecPool == InitPool /\ [][NextPool]_vars

----------------------------------------------------------------------------
(* Claims on the pool.                                                     *)

PoolOp(op) == last.op = op
ZpoolDestroyed(name) == <<"zpool", "destroy", name>> \in SeqToSet(log)
\* the datasets a call added to the ones it found
CreatedByCall == DOMAIN datasets \ DOMAIN poolState.old.ds

\* C23 as stated: when s.dataset is set, StoragePoolDelete runs no zpool
\* destroy and leaves every dataset it found; it only removes the pool's
\* mountpoint directory.
C23_AsStated ==
    (PoolOp("StoragePoolDelete") /\ dataset # <<>>) =>
        /\ \A e \in SeqToSet(log) : e[1] # "zpool"
        /\ datasets = poolState.old.ds

\* C23, the divergence: the driver was given the zpool tank, and its
\* StoragePoolDelete destroyed the zpool that has the storage pool's name.
C23_Divergence ==
    /\ PoolOp("StoragePoolDelete") /\ ~last.err
    /\ dataset = TankPool
    /\ ZpoolDestroyed(PoolName)
    /\ <<PoolName>> \in DOMAIN poolState.old.ds
    /\ <<PoolName>> \notin DOMAIN datasets
    /\ TankPool \in DOMAIN datasets

\* C24 as stated: a StoragePoolCreate that succeeds leaves the four schema
\* roots with mountpoint none; one that returns an error leaves none of
\* the datasets it created.
C24_AsStated ==
    PoolOp("StoragePoolCreate") =>
        /\ ~last.err =>
              \A r \in {"containers", "images", "custom", "deleted"} :
                  /\ Exists(datasets, Full(<<r>>))
                  /\ datasets[Full(<<r>>)].mountpoint = None
        /\ last.err => CreatedByCall = {}

\* C24, the divergence: on the dataset tank/lxd a StoragePoolCreate that
\* failed returned with tank/lxd/containers, which it had created.
C24_Divergence ==
    /\ PoolOp("StoragePoolCreate") /\ last.err
    /\ dataset = TankDataset
    /\ Full(<<"containers">>) \in CreatedByCall
    /\ log # <<>> /\ \A e \in SeqToSet(log) : e[1] # "zpool"

\* the root of the pool as the check found it, imported or on its device
RootBefore ==
    IF Exists(poolState.old.ds, onDiskPoolName) THEN poolState.old
    ELSE poolState.old.exported
RootWasLocal == <<onDiskPoolName, "mountpoint">> \in DOMAIN RootBefore.props
RootMountpointBefore == RootBefore.ds[onDiskPoolName].mountpoint
Checked ==
    /\ PoolOp("StoragePoolCheck") /\ ~last.err
    /\ Exists(RootBefore.ds, onDiskPoolName)

\* C25 as stated: a StoragePoolCheck that succeeds has set the mountpoint
\* of the pool's root to none if the source of the property was local, and
\* has left the mountpoint as it was otherwise.
C25_AsStated ==
    Checked =>
        /\ RootWasLocal => datasets[onDiskPoolName].mountpoint = None
        /\ ~RootWasLocal => datasets[onDiskPoolName].mountpoint = RootMountpointBefore

\* C25, amended: a StoragePoolCheck that succeeds has set the mountpoint of
\* the pool's root to none (a local setting from then on) if the source of
\* the property was not local, and has left it as it was if it was local.
C25_ResetUnlessLocal ==
    Checked =>
        /\ ~RootWasLocal =>
              /\ datasets[onDiskPoolName].mountpoint = None
              /\ <<onDiskPoolName, "mountpoint">> \in DOMAIN poolState.props
              /\ <<"set", <<>>, "mountpoint">> \in SeqToSet(log)
        /\ RootWasLocal =>
              /\ datasets[onDiskPoolName].mountpoint = RootMountpointBefore
              /\ \A e \in SeqToSet(log) : e[1] # "set"

C25_Witness ==
    /\ Checked
    /\ RootWasLocal
    /\ RootMountpointBefore = <<"mnt">>
    /\ datasets[onDiskPoolName].mountpoint = <<"mnt">>

\* the number a string of decimal digits stands for
RECURSIVE DecimalValue(_)
DecimalValue(s) ==
    IF s = <<>> THEN 0
    ELSE 10 * DecimalValue(SubSeq(s, 1, Len(s) - 1))
         + (CHOOSE i \in 0..9 : Digit[i + 1] = s[Len(s)])

IsDecimal(s) ==
    /\ s # <<>>
    /\ \A i \in 1..Len(s) : s[i] \in SeqToSet(Digit)
    /\ s[1] # "0"

PropertyOf(props, full, key) ==
    IF <<full, key>> \in DOMAIN props THEN props[<<full, key>>] ELSE <<"unset">>

\* C26: a ContainerSetQuota that returns without error has run one zfs
\* set, on containers/<n>, of refquota when zfs.use_refquota is true and of
\* quota otherwise; the property is the size in decimal digits for a
\* positive size and none for size 0, and the other of the two properties
\* is what it was.
C26_OneProperty ==
    (PoolOp("ContainerSetQuota") /\ ~last.err) =>
        LET full == Full(ContainerFs(last.name))
            refquota == poolState.useRefquota[last.name]
            key == IF refquota THEN "refquota" ELSE "quota"
            other == IF refquota THEN "quota" ELSE "refquota"
            value == PropertyOf(poolState.props, full, key)
        IN  /\ log = <<(<<"set", ContainerFs(last.name), key>>)>>
            /\ last.arg2 > 0 => IsDecimal(value) /\ DecimalValue(value) = last.arg2
            /\ last.arg2 = 0 => value = None
            /\ PropertyOf(poolState.props, full, other)
                   = PropertyOf(poolState.old.props, full, other)

\* refquota was set to none on a container whose quota is 1024
C26_Witness ==
    /\ PoolOp("ContainerSetQuota") /\ ~last.err
    /\ last.arg2 = 0
    /\ poolState.useRefquota[last.name]
    /\ PropertyOf(poolState.props, Full(ContainerFs(last.name)), "refquota") = None
    /\ PropertyOf(poolState.props, Full(ContainerFs(last.name)), "quota")
           = <<"1", "0", "2", "4">>

----------------------------------------------------------------------------
(* The three guarded sections side by side: every caller runs              *)
(* ContainerMount, ContainerUmount or ContainerCreateFromImage.            *)

InitSection ==
    /\ InitCoord
    /\ datasets \in MountPools
    /\ call \in [Threads -> MountCalls \cup {CreateCalls[t] : t \in Threads}]
    /\ \A t \in Threads : IsCreateCall(t) => call[t] = CreateCalls[t]

NextSection == NextMount \/ NextImage

SpecSection == InitSection /\ [][NextSection]_vars

\* the leader has inserted its channel and its zfs operation (the mount
\* test and the mount, the image test and ImageCreate) has not returned
BeforeZfsReturn(t) == pc[t] \in {"check", "zfs", "zfsexit", "image", "create"}
Closed(c) == channels[c] > 0
LeadersOf(u) == {t \in Threads : made[t] = waitChannel[u]}

\* C27: in the three sections, while the zfs operation of a leader has not
\* returned its channel is open and the key still maps to it, and a
\* caller that waited on a key has not got past its receive: no waiter
\* returns before the zfs operation of its leader has completed.
C27_CloseAfterZfs ==
    /\ \A t \in Threads : (IsLeader(t) /\ BeforeZfsReturn(t)) =>
          /\ ~Closed(made[t])
          /\ LockID(call[t]) \in DOMAIN lxdStorageOngoingOperationMap
          /\ lxdStorageOngoingOperationMap[LockID(call[t])] = made[t]
    /\ \A u \in Threads : (IsWaiter(u) /\ pc[u] # "wait") =>
          \A t \in LeadersOf(u) : ~BeforeZfsReturn(t) /\ Closed(made[t])

\* a waiter of a mount has returned after a leader that ran zfs mount,
\* next to a creation from an image that ran ImageCreate
C27_Witness ==
    \E u, v \in Threads :
        /\ IsWaiter(u) /\ call[u].op = "mount" /\ Returned(u)
        /\ \E t \in LeadersOf(u) : invoked[t] > 0
        /\ IsLeader(v) /\ IsCreateCall(v) /\ invoked[v] > 0 /\ ~BeforeZfsReturn(v)

----------------------------------------------------------------------------
(* Claims on the reverts of ContainerRename, ContainerCreate,              *)
(* ContainerCreateFromImage and ContainerCopy (specification Spec).        *)

Logged(entry) == entry \in SeqToSet(log)
\* the call failed after zfs rename containers/<old> containers/<new>
RenameFailedLate ==
    /\ last.op = "ContainerRename" /\ last.err
    /\ Logged(<<"rename", ContainerFs(last.name), ContainerFs(last.arg)>>)

\* C28 as stated: when ContainerRename(old, new) returns an error after the
\* zfs rename succeeded, the dataset is containers/<old> again and
\* containers/<new> does not exist.
C28_AsStated ==
    RenameFailedLate => HasContainer(last.name) /\ ~HasContainer(last.arg)

\* C28, the divergence: one command failed after the zfs rename and the
\* call returned with the dataset under its new name.
C28_Divergence ==
    /\ RenameFailedLate
    /\ last.faults = 1
    /\ ~HasContainer(last.name)
    /\ HasContainer(last.arg)

Created == last.op \in {"ContainerCreate", "ContainerCreateFromImage"}
Destroyed(name) == Logged(<<"destroy", ContainerFs(name)>>)

\* C29: containers/<n> did not exist before ContainerCreate or
\* ContainerCreateFromImage.  When the call returns an error, with no
\* other command failing than the one that made it fail, containers/<n>
\* does not exist, whatever step failed after the dataset was created or
\* cloned; when it returns nil the dataset exists and no destroy has run.
C29_RevertDeletes ==
    (Created /\ last.faults <= 1) =>
        /\ last.err => ~HasContainer(last.name)
        /\ ~last.err => HasContainer(last.name) /\ ~Destroyed(last.name)

\* the clone of the image was made, a later step failed and the revert
\* destroyed containers/<n>
C29_Witness ==
    /\ last.op = "ContainerCreateFromImage" /\ last.err /\ last.faults = 1
    /\ Logged(<<"clone", ContainerFs(last.name)>>)
    /\ Logged(<<"createContainerMountpoint", last.name>>)
    /\ Destroyed(last.name)
    /\ ~HasContainer(last.name)

\* ContainerCopy of a container (not of a snapshot) that has a dataset
LiveCopy == last.op = "ContainerCopy" /\ last.arg2 = ""
CopyTarget == ContainerFs(last.name)
CopySource == ContainerFs(last.arg)
\* copy-<uuid> with the uuid the call drew
CopySnap == Copy(last.uuid)

\* C30: ContainerCopy from a container with a dataset takes one snapshot,
\* copy-<uuid> of the source, and no other.  When it returns nil the
\* snapshot and the target exist and the target's origin is the snapshot.
\* When it returns an error, with no other command failing than the one
\* that made it fail, neither the target nor the snapshot exists, and where
\* the clone had been made the target was destroyed before the snapshot.
C30_CopyRevert ==
    (LiveCopy /\ last.faults <= 1) =>
        /\ \A i \in LogPositions(log, "snapshot") :
              log[i] = <<"snapshot", CopySource, CopySnap>>
        /\ Cardinality(LogPositions(log, "snapshot")) <= 1
        /\ ~last.err =>
              /\ Logged(<<"snapshot", CopySource, CopySnap>>)
              /\ HasContainer(last.name)
              /\ SnapExists(datasets, Full(CopySource), CopySnap)
              /\ datasets[Full(CopyTarget)].origin = Path(Full(CopySource), CopySnap)
              /\ LogPositions(log, "destroy") = {}
        /\ last.err =>
              /\ ~HasContainer(last.name)
              /\ ~SnapExists(datasets, Full(CopySource), CopySnap)
              /\ Logged(<<"snapshot", CopySource, CopySnap>>) =>
                    Logged(<<"destroy", CopySource, CopySnap>>)
              /\ Logged(<<"destroy", CopyTarget>>) =>
                    Before(log, <<"destroy", CopyTarget>>,
                           <<"destroy", CopySource, CopySnap>>)

\* a step after the clone failed: the target was destroyed, then the
\* snapshot
C30_Witness ==
    /\ LiveCopy /\ last.err /\ last.faults = 1
    /\ Logged(<<"createContainerMountpoint", last.name>>)
    /\ Before(log, <<"destroy", CopyTarget>>, <<"destroy", CopySource, CopySnap>>)
    /\ ~HasContainer(last.name)
    /\ ~SnapExists(datasets, Full(CopySource), CopySnap)

----------------------------------------------------------------------------
(* The graveyard: what zfsPoolVolumeCleanup collects.                      *)

InGraveyard(full) ==
    /\ IsPrefix(onDiskPoolName \o <<"deleted">>, full)
    /\ Len(full) > Len(onDiskPoolName) + 1

\* a full path as the driver names it below the pool
Relative(path) == Path(TrimPrefix(path.fs, onDiskPoolName), path.snap)

\* the pool a cleanup of the full path p leaves when the chain of orphans
\* above it is collected bottom-up
RECURSIVE Reclaimed(_, _)
Reclaimed(ds, p) ==
    IF p = NoOrigin \/ ~InGraveyard(p.fs) \/ ~PathExists(ds, p) THEN ds
    ELSE IF p.snap # NoSnap
    THEN IF Clones(ds, p.fs, p.snap) # {} THEN ds
         ELSE LET d1 == [ds EXCEPT ![p.fs].snaps = RemoveSnap(@, p.snap)] IN
              IF d1[p.fs].snaps = <<>> THEN Reclaimed(d1, FsPath(p.fs)) ELSE d1
    ELSE Reclaimed(Drop(ds, {p.fs}), ds[p.fs].origin)

\* the containers whose deletion hands a graveyard snapshot to the cleanup
LastClones ==
    {name \in ContainerNames :
        /\ HasContainer(name)
        /\ ContainerFacts(name).removable
        /\ InGraveyard(ContainerFacts(name).origin.fs)}

\* the pool once containers/<name> is destroyed
CloneDestroyed(name) == zfsPoolVolumeDestroy(Call({}), FsPath(ContainerFs(name)))

\* C31: zfsPoolVolumeCleanup on a path under deleted/, handed the origin of
\* a clone that was just destroyed, terminates having collected the chain
\* of orphans bottom-up: a snapshot without clones is destroyed, its
\* filesystem after it when no snapshot is left, then the origin of that
\* filesystem in the same way, up to the first element that still has a
\* clone or a snapshot, or to the "-" origin.
C31_AsStated ==
    \A name \in LastClones :
        LET origin == ContainerFacts(name).origin
            wd == CloneDestroyed(name)
            wc == zfsPoolVolumeCleanup(wd, Relative(origin))
        IN  /\ ~wc.err
            /\ Listing(wc.ds) = Listing(Reclaimed(wd.ds, origin))

\* the same on a pool that is not a dataset of another pool
C31_PlainPool == dataset = <<>> => C31_AsStated

\* a clone whose deletion lets the cleanup climb from a graveyard snapshot
\* to its filesystem and on to the origin of that filesystem
C31_Witness ==
    \E name \in LastClones :
        LET origin == ContainerFacts(name).origin IN
        /\ datasets[origin.fs].snaps = <<origin.snap>>
        /\ Clones(datasets, origin.fs, origin.snap) = {Full(ContainerFs(name))}
        /\ InGraveyard(datasets[origin.fs].origin.fs)

\* the climb stops short: the chain above the graveyard filesystem is left
C31_Divergence == C31_Witness /\ ~C31_AsStated

\* the paths a cleanup can be handed: "-", and every filesystem and
\* snapshot of the pool by its name below the pool and by its full name
CleanupPaths ==
    LET full == {FsPath(d) : d \in DOMAIN datasets} \cup
                UNION {{Path(d, datasets[d].snaps[i]) : i \in 1..Len(datasets[d].snaps)} :
                          d \in DOMAIN datasets}
    IN  {NoOrigin} \cup full \cup {Relative(p) : p \in full}

\* strings.HasPrefix(path, "deleted/")
HasDeletedPrefix(path) == IsPrefix(<<"deleted">>, path.fs) /\ Len(path.fs) > 1

\* strings.HasPrefix(path, "containers") && strings.Contains(path, "@copy-")
IsCopySnapshot(path) ==
    path.fs[1] = "containers" /\ path.snap # NoSnap /\ path.snap[1] = "copy"

\* a path the cleanup has nothing to do for
Spared(path) ==
    \/ ~HasDeletedPrefix(path) /\ ~IsCopySnapshot(path)
    \/ /\ HasDeletedPrefix(path)
       /\ path.snap # NoSnap
       /\ Clones(datasets, Full(path.fs), path.snap) # {}

ClonedFromLiveImage ==
    /\ last.op = "ContainerDelete"
    /\ last.container.existed
    /\ \E fp \in Fingerprints :
          last.container.origin = Path(Full(ImageFs(fp)), ReadOnly)

\* C32: zfsPoolVolumeCleanup returns nil and leaves the pool as it was for
\* every path that is neither under deleted/ nor a containers/ path with
\* @copy-, and for every path under deleted/ that still has clones; a
\* ContainerDelete of a container cloned from images/<fp>@readonly leaves
\* the image and its readonly snapshot where they are, whatever fails.
C32_Frame ==
    /\ \A path \in CleanupPaths :
          Spared(path) =>
              LET wc == zfsPoolVolumeCleanup(Call({}), path) IN
              /\ ~wc.err
              /\ wc.ds = datasets
              /\ wc.log = <<>>
    /\ ClonedFromLiveImage =>
          SnapExists(datasets, last.container.origin.fs, ReadOnly)

\* a container cloned from the live image has been destroyed while the
\* graveyard holds a snapshot that still has a clone
C32_Witness ==
    /\ ClonedFromLiveImage
    /\ ~last.err
    /\ last.container.removable
    /\ \E path \in CleanupPaths :
          HasDeletedPrefix(path) /\ path.snap # NoSnap /\ Spared(path)

----------------------------------------------------------------------------
(* zfsPoolVolumeRename on its own: datasets are renamed back and forth,    *)
(* each call with its own run of failing attempts.                         *)

RenameNames ==
    {ContainerFs("c1"), ContainerFs("c2"), <<"deleted", "containers", "u1">>}

\* fewer than 20 failing attempts and then one that renames, or nothing
\* but failing attempts
RetryPlans ==
    [failures : 0..(RenameAttempts - 1), then : RenameOutcomes \ {"fail"}]
        \cup {[failures |-> RenameAttempts, then |-> "fail"]}

DoRename(source, dest, plan) ==
    \E r \in {RenameLoop(Call({}), source, dest, plan, 1, <<>>)} :
    /\ datasets' = r.world.ds
    /\ log' = r.world.log
    /\ last' = [op |-> "zfsPoolVolumeRename", name |-> source, arg |-> dest,
                err |-> r.world.err, trace |-> r.trace]
    /\ UNCHANGED <<dataset, imageDb, uuidNext, faultsUsed, opsDone, files, prev, before,
                   mig, poolState, lxdStorageMapLock, lxdStorageOngoingOperationMap,
                   channels, pc, call, waitChannel, made, ourMount, imgerr,
                   invoked, ret>>

InitRename ==
    /\ dataset \in Datasets
    /\ datasets = PoolWithContainer("c1")
    /\ imageDb = {}
    /\ uuidNext = 0
    /\ log = <<>>
    /\ last = NoCall
    /\ faultsUsed = 0
    /\ opsDone = 0
    /\ files = NoFiles
    /\ prev = NoCall
    /\ before = NoHistory
    /\ mig = NoMigration
    /\ poolState = NoPool
    /\ NoCallers

NextRename ==
    \E source, dest \in RenameNames, plan \in RetryPlans : DoRename(source, dest, plan)

SpecRename == InitRename /\ [][NextRename]_vars

\* an attempt after which the loop returns nil
Decides(a) == a.exit = 0 \/ (~a.source /\ a.dest)

\* C33: zfsPoolVolumeRename makes at most 20 attempts; it returns nil at
\* the first attempt that exits 0 or after which the source is gone and the
\* destination exists, and an error only after 20 attempts none of which
\* did either.
C33_Bounded ==
    last # NoCall =>
        /\ Len(last.trace) \in 1..20
        /\ \A i \in 1..(Len(last.trace) - 1) : ~Decides(last.trace[i])
        /\ ~last.err => Decides(last.trace[Len(last.trace)])
        /\ last.err => Len(last.trace) = 20 /\ ~Decides(last.trace[20])

\* a call that returned nil after more than one attempt, the last of which
\* exited non-zero and yet had renamed the dataset
C33_Witness ==
    /\ last # NoCall
    /\ ~last.err
    /\ Len(last.trace) > 1
    /\ last.trace[Len(last.trace)].exit # 0
    /\ Exists(datasets, Full(last.arg))

\* a call that gave up
C33_TimedOut == last # NoCall /\ last.err

----------------------------------------------------------------------------
(* Claims about the table of ongoing operations (specification             *)
(* SpecSection).                                                           *)

\* the caller has inserted a channel and has not yet closed it
HoldsEntry(t) ==
    /\ IsLeader(t)
    /\ pc[t] \in {"check", "zfs", "zfsexit", "image", "create", "relock", "locked2"}

InProgress(t) == pc[t] \notin {"start", "done"}

InTable(c) ==
    \E k \in DOMAIN lxdStorageOngoingOperationMap : lxdStorageOngoingOperationMap[k] = c

\* C34: the table holds an entry for a key exactly while one leader for
\* that key is between inserting its channel and closing it; no channel is
\* closed twice, a channel is open only while it is in the table, whether
\* the zfs operation failed or not, and the table is empty whenever no
\* call is in progress.
C34_TableEntries ==
    /\ \A k \in DOMAIN lxdStorageOngoingOperationMap :
          Cardinality({t \in Threads :
                          /\ HoldsEntry(t)
                          /\ LockID(call[t]) = k
                          /\ made[t] = lxdStorageOngoingOperationMap[k]}) = 1
    /\ \A t \in Threads : HoldsEntry(t) =>
          /\ LockID(call[t]) \in DOMAIN lxdStorageOngoingOperationMap
          /\ lxdStorageOngoingOperationMap[LockID(call[t])] = made[t]
    /\ \A c \in 1..Len(channels) :
          /\ channels[c] <= 1
          /\ channels[c] = 0 <=> InTable(c)
    /\ (\A t \in Threads : ~InProgress(t)) => lxdStorageOngoingOperationMap = EmptyMap

\* every call has returned, two of them were leaders, one of a zfs
\* operation that failed, and one caller waited
C34_Witness ==
    /\ \A t \in Threads : pc[t] = "done"
    /\ Len(channels) >= 2
    /\ \E t \in Threads : IsLeader(t) /\ ZfsFailed(t)
    /\ \E t \in Threads : IsWaiter(t)

----------------------------------------------------------------------------
(* The three sections under a fair scheduler: a goroutine that can take    *)
(* its next statement eventually takes it, and every zfs invocation        *)
(* returns.  The callers being interchangeable, the calls are listed       *)
(* mounts first and creations last; the container starts unmounted and is  *)
(* found mounted by the callers that come after a mount.                   *)

\* the statements of the sections that run no command
Statement(t) ==
    \/ Lock1(t) \/ Enter(t) \/ WaiterReturn(t) \/ Check(t) \/ ZfsExit(t)
    \/ Lock2(t) \/ Leave(t) \/ LeaderReturn(t)
    \/ ImageLock1(t) \/ ImageEnter(t) \/ ImageWaiterProceed(t) \/ ImageCheck(t)
    \/ ImageLock2(t) \/ ImageLeave(t) \/ ImageLeaderProceed(t)

\* the zfs mount / unmount, the ImageCreate or the clone of the caller
\* returns
ZfsReturns(t) ==
    /\ pc[t] \in {"zfs", "create", "clone"}
    /\ \E to \in {"zfsexit", "relock", "done"} : pc' = [pc EXCEPT ![t] = to]

OpRank(c) == IF c.op = "mount" THEN 1 ELSE IF c.op = "umount" THEN 2 ELSE 3

InitSectionFair ==
    /\ InitSection
    /\ \A n \in CoordNames : ~datasets[<<PoolName, "containers", n>>].mounted
    /\ \A t \in Threads \ {NThreads} : OpRank(call[t]) <= OpRank(call[t + 1])

SpecSectionFair ==
    /\ InitSectionFair
    /\ [][NextSection]_vars
    /\ \A t \in Threads : WF_vars(Statement(t)) /\ WF_pc(ZfsReturns(t))

\* a command the caller is about to run can return in the model: some
\* fault plan left lets the step be taken
ZfsCanReturn ==
    \A t \in Threads :
        /\ pc[t] = "create" =>
              \E fails \in FaultPlans :
                  \E w \in {ImageCreate(World(fails), call[t].fp)} :
                      (\A i \in w.fails : i <= w.step)
        /\ pc[t] = "clone" =>
              \E fails \in FaultPlans :
                  \E w \in {ContainerCloneImage(World(fails), call[t].name, call[t].fp)} :
                      (\A i \in w.fails : i <= w.step)

\* C35: provided every zfs invocation terminates, every ContainerMount,
\* ContainerUmount and ContainerCreateFromImage call eventually returns,
\* whatever the interleaving: no waiter waits forever and no caller is
\* stuck at the table mutex.
C35_EveryCallReturns ==
    /\ []ZfsCanReturn
    /\ \A t \in Threads : <>(pc[t] = "done")

\* a caller waits on the channel of a leader whose zfs operation is running
\* while a third caller holds the mutex
C35_Witness ==
    \E u, t, v \in Threads :
        /\ pc[u] = "wait"
        /\ ~Received(u)
        /\ t \in LeadersOf(u)
        /\ pc[t] \in {"zfs", "create"}
        /\ lxdStorageMapLock = v

----------------------------------------------------------------------------
(* ContainerMount: what a nil error tells the caller (specification        *)
(* SpecMount).                                                             *)

ReturnedNil(t) == Returned(t) /\ ~ret[t].err

\* C36: when ContainerMount returns a nil error and no ContainerUmount of
\* the container runs beside it, the dataset is mounted at its mountpoint
\* when the call returns, for the caller that did the work and for the
\* callers that waited on it.
C36_AsStated ==
    \A n \in CoordNames : AllMount(n) =>
        \A t \in Threads : ReturnedNil(t) => Mounted(n)

\* the same for the callers that inserted the channel
C36_Leaders ==
    \A n \in CoordNames : AllMount(n) =>
        \A t \in Threads : (ReturnedNil(t) /\ IsLeader(t)) => Mounted(n)

\* a waiter has returned nil and the dataset is not mounted: the zfs mount
\* of the caller it waited on failed
C36_Divergence ==
    \E n \in CoordNames : \E t, u \in Threads :
        /\ AllMount(n)
        /\ IsWaiter(t)
        /\ ReturnedNil(t)
        /\ u \in LeadersOf(t)
        /\ ZfsFailed(u)
        /\ ~Mounted(n)

----------------------------------------------------------------------------
(* ContainerSnapshotRename and its deferred revert.  The snapshot          *)
(* container is not renamed while the call runs, so the revert             *)
(* s.ContainerSnapshotRename(snapshotContainer, oldName) renames           *)
(* <c>/<old> to <c>/<old>.  A step of the call fails when the fault plan   *)
(* hits it, and at every try when its kind is in stuck.                    *)

StuckKinds == {"Remove", "MkdirAll", "Symlink"}

\* no legacy <var>/snapshots/<c>/<old>.zfs file exists in a pool this driver
\* has made; the mountpoint of the old name is removed
SnapshotRenameRemove(w, c, old, stuck) ==
    IF ~sharedPathExists(w, SnapshotMountPoint(c, old)) THEN Ok(w)
    ELSE IF "Remove" \in stuck THEN Failed(w)
    ELSE osRemove(w, SnapshotMountPoint(c, old))

SnapshotRenameMkdir(w, c, new, stuck) ==
    IF w.err \/ sharedPathExists(w, SnapshotMountPoint(c, new)) THEN w
    ELSE IF "MkdirAll" \in stuck THEN Failed(w)
    ELSE osMkdirAll(w, SnapshotMountPoint(c, new))

SnapshotRenameLink(w, c, stuck) ==
    IF w.err \/ sharedPathExists(w, VarPath("snapshots", c)) THEN w
    ELSE IF "Symlink" \in stuck THEN Failed(w)
    ELSE osSymlink(w, getSnapshotMountPoint(PoolName, c), VarPath("snapshots", c))

\* if oldZfsDatasetName != newZfsDatasetName { zfs rename }
SnapshotRenameZfs(w, c, old, new) ==
    IF old # new
    THEN zfsPoolVolumeSnapshotRename(w, ContainerFs(c), Snapshot(old), Snapshot(new))
    ELSE Ok(w)

\* the call returns what the revert left and the error it had
RevertReturned(r) == [r EXCEPT !.world = Deferred(@, TRUE)]

\* one frame of the call: depth reverts are on the stack below it.  A frame
\* that fails after the zfs rename enters the revert; the model follows
\* MaxReverts of them and reports a further one as unfinished.
RECURSIVE SnapshotRenameFrame(_, _, _, _, _, _)
SnapshotRenameRevert(wf, c, old, stuck, depth) ==
    IF ~wf.err THEN [world |-> wf, reverts |-> depth, unfinished |-> FALSE]
    ELSE IF depth = MaxReverts
    THEN [world |-> wf, reverts |-> depth, unfinished |-> TRUE]
    ELSE RevertReturned(SnapshotRenameFrame(wf, c, old, old, stuck, depth + 1))

SnapshotRenameFiles(wz, c, old, new, stuck, depth) ==
    IF wz.err THEN [world |-> wz, reverts |-> depth, unfinished |-> FALSE]
    ELSE SnapshotRenameRevert(
             SnapshotRenameLink(
                 SnapshotRenameMkdir(SnapshotRenameRemove(wz, c, old, stuck),
                                     c, new, stuck),
                 c, stuck),
             c, old, stuck, depth)

SnapshotRenameFrame(w, c, old, new, stuck, depth) ==
    SnapshotRenameFiles(SnapshotRenameZfs(w, c, old, new), c, old, new, stuck, depth)

ContainerSnapshotRename(w, c, old, new, stuck) ==
    SnapshotRenameFrame(w, c, old, new, stuck, 0)

DoContainerSnapshotRename(c, old, new, stuck) ==
    /\ HasSnapshot(c, old)
    /\ opsDone < MaxOps
    /\ opsDone' = opsDone + 1
    /\ \E fails \in FaultPlans :
         \E r \in {ContainerSnapshotRename(Call(fails), c, old, new, stuck)} :
            /\ \A i \in fails : i <= r.world.step
            /\ faultsUsed' = faultsUsed + Cardinality(fails)
            /\ datasets' = r.world.ds
            /\ files' = r.world.files
            /\ log' = r.world.log
            /\ last' = [op |-> "ContainerSnapshotRename", name |-> c, arg |-> old,
                        arg2 |-> new, err |-> r.world.err,
                        faults |-> Cardinality(fails), stuck |-> stuck,
                        reverts |-> r.reverts, unfinished |-> r.unfinished]
    /\ UNCHANGED <<dataset, imageDb, uuidNext, prev, before, mig, poolState,
                   lxdStorageMapLock, lxdStorageOngoingOperationMap, channels, pc,
                   call, waitChannel, made, ourMount, imgerr, invoked, ret>>

NextSnapshotRename ==
    \/ \E s \in MigrationSnapNames : DoContainerSnapshotCreate("c1", s)
    \/ \E s \in MigrationSnapNames : DoContainerSnapshotDelete("c1", s)
    \/ \E old, new \in MigrationSnapNames, stuck \in {{}} \cup {{k} : k \in StuckKinds} :
          DoContainerSnapshotRename("c1", old, new, stuck)

SpecSnapshotRename == InitSnapshot /\ [][NextSnapshotRename]_vars

SnapshotRenamed == last.op = "ContainerSnapshotRename"

\* C37: ContainerSnapshotRename terminates: when a filesystem step after
\* the zfs snapshot rename fails, the deferred revert is entered a bounded
\* number of times before the error is returned, also when the step that
\* failed keeps failing.
C37_AsStated == SnapshotRenamed => ~last.unfinished

\* when no step fails more than once the revert is entered once
C37_Transient ==
    (SnapshotRenamed /\ last.stuck = {}) => last.reverts <= last.faults

\* a step that keeps failing: every revert that was followed entered
\* another one
C37_Divergence ==
    /\ SnapshotRenamed
    /\ last.stuck # {}
    /\ last.reverts = MaxReverts
    /\ last.unfinished

----------------------------------------------------------------------------
(* Claims about the graveyard after whole calls (specification Spec).      *)

\* the buried containers and images: deleted/containers/<uuid> and
\* deleted/images/<fp>
Buried ==
    {d \in DOMAIN datasets : InGraveyard(d) /\ Len(d) = Len(onDiskPoolName) + 3}

HasClonedSnapshot(d) ==
    \E i \in 1..Len(datasets[d].snaps) : Clones(datasets, d, datasets[d].snaps[i]) # {}

\* C38: after any sequence of container, snapshot and image calls that
\* completed, a dataset under deleted/ exists only while one of its
\* snapshots still has a clone: nothing is left in the graveyard, also when
\* the buried container has several snapshots of which only some were ever
\* cloned.
C38_AsStated == faultsUsed = 0 => \A d \in Buried : HasClonedSnapshot(d)

\* a buried container without a clone, on a pool that is not a dataset of
\* another pool: the snapshot that had the clone is gone, another is left
C38_Divergence ==
    /\ faultsUsed = 0
    /\ dataset = <<>>
    /\ last.op = "ContainerDelete"
    /\ ~last.err
    /\ \E d \in Buried : ~HasClonedSnapshot(d) /\ datasets[d].snaps # <<>>


----------------------------------------------------------------------------
(* A driver bound to a dataset of another pool.                            *)

\* the origins ContainerDelete and zfsPoolVolumeCleanup read and trim
ReadOrigins ==
    {datasets[d].origin : d \in DOMAIN datasets} \ {NoOrigin}

\* the names zfsPoolListSubvolumes returns for the whole pool
ListedNames == zfsPoolListSubvolumes(Call({}), <<>>)

\* the pool ContainerDelete leaves when it destroys containers/<name>
DeletedByDriver(name) == DeleteDataset(Call({}), name)

\* the pool it leaves when the cleanup is handed the origin by its name
\* below the pool, as on a plain pool
DeletedOnPlainPool(name) ==
    zfsPoolVolumeCleanup(CloneDestroyed(name),
                         Relative(ContainerFacts(name).origin))

\* C39: a driver bound to a dataset-path source behaves like one bound to
\* a plain pool for delete and reclamation: every origin read is reduced
\* to its path below the pool (deleted/..., containers/..., images/...)
\* by the prefix the full names were built with, every name returned by
\* zfsPoolListSubvolumes is such a path, and the delete of the last clone
\* of a graveyard snapshot leaves the pool the cleanup of that path leaves.
C39_AsStated ==
    /\ \A o \in ReadOrigins : TrimOrigin(o) = Relative(o)
    /\ \A n \in ListedNames : Exists(datasets, Full(n))
    /\ \A name \in LastClones :
          Listing(DeletedByDriver(name).ds) = Listing(DeletedOnPlainPool(name).ds)

\* the same on a pool that is not a dataset of another pool
C39_PlainPool == dataset = <<>> => C39_AsStated

\* on a plain pool the delete of a last clone collects its graveyard origin
C39_Witness ==
    /\ dataset = <<>>
    /\ \E name \in LastClones :
          /\ ~DeletedByDriver(name).err
          /\ ~Exists(DeletedByDriver(name).ds, ContainerFacts(name).origin.fs)

\* on a dataset the origin keeps its prefix and the delete of the last
\* clone leaves the graveyard filesystem that the cleanup would collect
C39_Divergence ==
    /\ dataset # <<>>
    /\ \E name \in LastClones :
          /\ TrimOrigin(ContainerFacts(name).origin) = ContainerFacts(name).origin
          /\ ~DeletedByDriver(name).err
          /\ Exists(DeletedByDriver(name).ds, ContainerFacts(name).origin.fs)
          /\ ~Exists(DeletedOnPlainPool(name).ds, ContainerFacts(name).origin.fs)


----------------------------------------------------------------------------
(* ContainerRestore: what zfs rollback finds on the dataset.               *)

\* ContainerRestore ran all its commands, none failing by itself, for a
\* snapshot the container had: its loop was left and zfs rollback was run
ReachedRollback ==
    /\ last.op = "ContainerRestore"
    /\ last.faults = 0
    /\ Snapshot(last.arg) \in SeqToSet(SnapsBefore)

\* the manager snapshots made after the target
NewerUserSnaps ==
    {SnapsBefore[i] : i \in (Index(SnapsBefore, Snapshot(last.arg)) + 1)..Len(SnapsBefore)}
        \cap {x \in SeqToSet(SnapsBefore) : x[1] = "snapshot"}

\* C40: when ContainerRestore reaches its zfs rollback step, the target is
\* the newest zfs snapshot of containers/<n>: every manager snapshot newer
\* than the target has left the snapshot list of the dataset, also when a
\* newer snapshot had clones when it was deleted.
C40_AsStated ==
    ReachedRollback => SnapsAfter[Len(SnapsAfter)] = Snapshot(last.arg)

\* the same when every zfs snapshot newer than the target is a manager
\* snapshot without a clone
C40_NoClones ==
    (ReachedRollback /\ NewerAllRemovable(last.arg)) =>
        /\ SnapsAfter[Len(SnapsAfter)] = Snapshot(last.arg)
        /\ ~last.err

\* a newer manager snapshot had a clone: it is still in the snapshot list,
\* as copy-<uuid>, after the target, and zfs rollback has refused
C40_Divergence ==
    /\ ReachedRollback
    /\ NewerUserSnaps \cap last.container.cloned # {}
    /\ \A i \in 1..Len(SnapsBefore) :
          SnapsBefore[i][1] = "copy" => i < Index(SnapsBefore, Snapshot(last.arg))
    /\ last.err
    /\ SnapsAfter[Len(SnapsAfter)][1] = "copy"
    /\ NewerUserSnaps \cap SeqToSet(SnapsAfter) = {}

====
